---- MODULE Spec2Model ----
(***************************************************************************)
(* Tabular validation engine of keansa-ai-suite-backend.                   *)
(*                                                                         *)
(* Strings are modelled as sequences of one-character strings, so that     *)
(* the regular expressions, str.strip, str.isdigit, float() and strptime   *)
(* of the source are computed character by character.  A cell of a frame   *)
(* is null (None/NaN), a string, or an integer (a typed spreadsheet cell). *)
(***************************************************************************)
EXTENDS Integers, Sequences, FiniteSets, TLC

VARIABLES df, catalog, files, stack, pc, call, ret, ret2

vars == <<df, catalog, files, stack, pc, call, ret, ret2>>

(***************************************************************************)
(* Bounds of the model.                                                    *)
(***************************************************************************)
MaxRows == 2

(***************************************************************************)
(* Characters and character classes.                                       *)
(***************************************************************************)
Digit == {"0", "1", "2", "3", "4", "5", "6", "7", "8", "9"}

LowerCase == {"a", "b", "c", "d", "e", "f", "g", "h", "i", "j", "k", "l", "m",
              "n", "o", "p", "q", "r", "s", "t", "u", "v", "w", "x", "y", "z"}

UpperCase == {"A", "B", "C", "D", "E", "F", "G", "H", "I", "J", "K", "L", "M",
              "N", "O", "P", "Q", "R", "S", "T", "U", "V", "W", "X", "Y", "Z"}

Letter == LowerCase \cup UpperCase

AlnumChar == Letter \cup Digit

DigitVal(c) ==
    CASE c = "0" -> 0 [] c = "1" -> 1 [] c = "2" -> 2 [] c = "3" -> 3
      [] c = "4" -> 4 [] c = "5" -> 5 [] c = "6" -> 6 [] c = "7" -> 7
      [] c = "8" -> 8 [] c = "9" -> 9

DigitChar(n) ==
    CASE n = 0 -> "0" [] n = 1 -> "1" [] n = 2 -> "2" [] n = 3 -> "3"
      [] n = 4 -> "4" [] n = 5 -> "5" [] n = 6 -> "6" [] n = 7 -> "7"
      [] n = 8 -> "8" [] n = 9 -> "9"

\* str.lower() of one character
LowerChar(c) ==
    CASE c = "A" -> "a" [] c = "B" -> "b" [] c = "C" -> "c" [] c = "D" -> "d"
      [] c = "E" -> "e" [] c = "F" -> "f" [] c = "G" -> "g" [] c = "H" -> "h"
      [] c = "I" -> "i" [] c = "J" -> "j" [] c = "K" -> "k" [] c = "L" -> "l"
      [] c = "M" -> "m" [] c = "N" -> "n" [] c = "O" -> "o" [] c = "P" -> "p"
      [] c = "Q" -> "q" [] c = "R" -> "r" [] c = "S" -> "s" [] c = "T" -> "t"
      [] c = "U" -> "u" [] c = "V" -> "v" [] c = "W" -> "w" [] c = "X" -> "x"
      [] c = "Y" -> "y" [] c = "Z" -> "z" [] OTHER -> c

\* str.lower()
StrLower(s) == [i \in 1..Len(s) |-> LowerChar(s[i])]

\* s[a..b], empty when a > b
Slice(s, a, b) == IF a > b THEN <<>> ELSE SubSeq(s, a, b)

AllIn(s, S) == \A i \in 1..Len(s) : s[i] \in S

\* the regex  ^[S]+$
Plus(s, S) == Len(s) > 0 /\ AllIn(s, S)

\* str.startswith
StartsWith(s, p) == Len(s) >= Len(p) /\ SubSeq(s, 1, Len(p)) = p

\* str.strip(): leading and trailing blanks removed
RECURSIVE LStrip(_)
LStrip(s) == IF Len(s) > 0 /\ s[1] = " " THEN LStrip(Tail(s)) ELSE s

RECURSIVE RStrip(_)
RStrip(s) ==
    IF Len(s) > 0 /\ s[Len(s)] = " " THEN RStrip(SubSeq(s, 1, Len(s) - 1)) ELSE s

Strip(s) == RStrip(LStrip(s))

\* str.isdigit()
IsDigitStr(s) == Plus(s, Digit)

\* value of a string of digits
RECURSIVE DigitsVal(_)
DigitsVal(s) ==
    IF Len(s) = 0 THEN 0
    ELSE 10 * DigitsVal(SubSeq(s, 1, Len(s) - 1)) + DigitVal(s[Len(s)])

\* str(n) for a non-negative integer
RECURSIVE NatStr(_)
NatStr(n) == IF n < 10 THEN <<DigitChar(n)>> ELSE NatStr(n \div 10) \o <<DigitChar(n % 10)>>

\* str(n) for an integer
IntStr(n) == IF n < 0 THEN <<"-">> \o NatStr(0 - n) ELSE NatStr(n)

\* str.replace(c, '', 1): the first occurrence of character c removed
RECURSIVE RemoveFirst(_, _)
RemoveFirst(s, c) ==
    IF Len(s) = 0 THEN s
    ELSE IF s[1] = c THEN Tail(s)
    ELSE <<s[1]>> \o RemoveFirst(Tail(s), c)

(***************************************************************************)
(* Regular expressions and parsers of the source.                          *)
(***************************************************************************)
EmailLocalChar == AlnumChar \cup {"_", ".", "+", "-"}

EmailDomainChar == AlnumChar \cup {"-"}

EmailTailChar == AlnumChar \cup {"-", "."}

\* re.match(r'^[a-zA-Z0-9_.+-]+@[a-zA-Z0-9-]+\.[a-zA-Z0-9-.]+$', s)
EmailMatch(s) ==
    \E i \in 2..Len(s) : \E j \in (i + 2)..(Len(s) - 1) :
        /\ s[i] = "@"
        /\ s[j] = "."
        /\ Plus(Slice(s, 1, i - 1), EmailLocalChar)
        /\ Plus(Slice(s, i + 1, j - 1), EmailDomainChar)
        /\ Plus(Slice(s, j + 1, Len(s)), EmailTailChar)

\* re.match(r'^[a-zA-Z0-9]+$', s)
AlnumMatch(s) == Plus(s, AlnumChar)

\* re.match(r'^-?\d+$', s)
IntMatch(s) ==
    \/ IsDigitStr(s)
    \/ Len(s) > 1 /\ s[1] = "-" /\ IsDigitStr(Tail(s))

\* re.match(r'^-?\d+(\.\d+)?$', s)
FloatMatch(s) ==
    \/ IntMatch(s)
    \/ \E d \in 2..(Len(s) - 1) :
          /\ s[d] = "."
          /\ IntMatch(Slice(s, 1, d - 1))
          /\ IsDigitStr(Slice(s, d + 1, Len(s)))

\* re.match(r'^(true|false|0|1)$', s, re.IGNORECASE), and
\* s.lower() in ['true', 'false', '0', '1']
BoolWords == {<<"t", "r", "u", "e">>, <<"f", "a", "l", "s", "e">>, <<"0">>, <<"1">>}

BoolMatch(s) == StrLower(s) \in BoolWords

\* digitpart of a Python float literal: digits, single underscores between digits
DigitPart(s) ==
    /\ Len(s) > 0
    /\ AllIn(s, Digit \cup {"_"})
    /\ s[1] # "_"
    /\ s[Len(s)] # "_"
    /\ \A i \in 1..(Len(s) - 1) : ~(s[i] = "_" /\ s[i + 1] = "_")

FloatMantissa(m) ==
    \/ DigitPart(m)
    \/ \E d \in 1..Len(m) :
          LET left == Slice(m, 1, d - 1)
              right == Slice(m, d + 1, Len(m))
          IN  /\ m[d] = "."
              /\ left = <<>> \/ DigitPart(left)
              /\ right = <<>> \/ DigitPart(right)
              /\ ~(left = <<>> /\ right = <<>>)

Unsigned(s) == IF Len(s) > 0 /\ s[1] \in {"+", "-"} THEN Tail(s) ELSE s

FloatWords == {<<"i", "n", "f">>, <<"n", "a", "n">>,
               <<"i", "n", "f", "i", "n", "i", "t", "y">>}

\* float(s) does not raise ValueError
PyFloatOk(s) ==
    LET u == Unsigned(Strip(s))
    IN  \/ StrLower(u) \in FloatWords
        \/ FloatMantissa(u)
        \/ \E e \in 2..(Len(u) - 1) :
              /\ u[e] \in {"e", "E"}
              /\ FloatMantissa(Slice(u, 1, e - 1))
              /\ DigitPart(Unsigned(Slice(u, e + 1, Len(u))))

(***************************************************************************)
(* datetime.strptime.  A format is a sequence of tokens, a directive       *)
(* ("%d", "%m", "%Y", "%y") or a literal character.                        *)
(***************************************************************************)
Directives == {"%d", "%m", "%Y", "%y"}

\* the regular expression of one directive (_strptime.TimeRE)
DirMatch(t, x) ==
    CASE t = "%d" ->
            \/ Len(x) = 1 /\ x[1] \in Digit \ {"0"}
            \/ /\ Len(x) = 2
               /\ \/ x[1] = "3" /\ x[2] \in {"0", "1"}
                  \/ x[1] \in {"1", "2"} /\ x[2] \in Digit
                  \/ x[1] = "0" /\ x[2] \in Digit \ {"0"}
                  \/ x[1] = " " /\ x[2] \in Digit \ {"0"}
      [] t = "%m" ->
            \/ Len(x) = 1 /\ x[1] \in Digit \ {"0"}
            \/ /\ Len(x) = 2
               /\ \/ x[1] = "1" /\ x[2] \in {"0", "1", "2"}
                  \/ x[1] = "0" /\ x[2] \in Digit \ {"0"}
      [] t = "%Y" -> Len(x) = 4 /\ AllIn(x, Digit)
      [] t = "%y" -> Len(x) = 2 /\ AllIn(x, Digit)

DirValue(t, x) ==
    LET v == DigitsVal(IF x[1] = " " THEN Tail(x) ELSE x)
    IN  IF t = "%y" THEN (IF v < 69 THEN 2000 + v ELSE 1900 + v) ELSE v

DirField(t) == CASE t = "%d" -> "d" [] t = "%m" -> "m" [] OTHER -> "y"

Min(a, b) == IF a < b THEN a ELSE b

\* every way of matching the whole of s against fmt
RECURSIVE Parses(_, _, _)
Parses(s, fmt, acc) ==
    IF fmt = <<>> THEN (IF s = <<>> THEN {acc} ELSE {})
    ELSE LET t == Head(fmt)
         IN  IF t \in Directives
             THEN UNION { Parses(Slice(s, n + 1, Len(s)), Tail(fmt),
                                 [acc EXCEPT ![DirField(t)] = DirValue(t, Slice(s, 1, n))]) :
                          n \in {k \in 1..Min(4, Len(s)) : DirMatch(t, Slice(s, 1, k))} }
             ELSE IF Len(s) > 0 /\ s[1] = t
                  THEN Parses(Tail(s), Tail(fmt), acc)
                  ELSE {}

IsLeap(y) == (y % 4 = 0 /\ y % 100 # 0) \/ y % 400 = 0

DaysInMonth(m, y) ==
    IF m = 2 THEN (IF IsLeap(y) THEN 29 ELSE 28)
    ELSE IF m \in {4, 6, 9, 11} THEN 30 ELSE 31

\* the fields are those of a datetime.datetime
ValidDate(p) == p.y >= 1 /\ p.d <= DaysInMonth(p.m, p.y)

\* datetime.strptime(s, fmt) does not raise ValueError
Strptime(s, fmt) ==
    \E p \in Parses(s, fmt, [d |-> 1, m |-> 1, y |-> 1900]) : ValidDate(p)

\* the strings pandas reads as NaT instead of parsing (tslibs nat_strings)
NatStrings == {<<>>, <<"N", "a", "T">>, <<"n", "a", "t">>, <<"N", "A", "T">>,
               <<"n", "a", "n">>, <<"N", "a", "N">>, <<"N", "A", "N">>}

\* pd.to_datetime(column, format=fmt) on one value: strptime within the
\* range of a nanosecond timestamp, NaT for an empty or NaT string
ToDatetimeOk(s, fmt) ==
    \/ s \in NatStrings
    \/ \E p \in Parses(s, fmt, [d |-> 1, m |-> 1, y |-> 1900]) :
          ValidDate(p) /\ p.y > 1677 /\ p.y < 2262

FmtDMY == <<"%d", "-", "%m", "-", "%Y">>

FmtMDY == <<"%m", "-", "%d", "-", "%Y">>

FmtMDYSlash == <<"%m", "/", "%d", "/", "%Y">>

FmtDMYSlash == <<"%d", "/", "%m", "/", "%Y">>

FmtMY == <<"%m", "-", "%Y">>

FmtMy == <<"%m", "-", "%y">>

FmtMYSlash == <<"%m", "/", "%Y">>

FmtMySlash == <<"%m", "/", "%y">>

FmtYMD == <<"%Y", "-", "%m", "-", "%d">>

\* the callers' default probing order
DefaultDateFormats ==
    <<FmtDMY, FmtMDY, FmtMDYSlash, FmtDMYSlash, FmtMY, FmtMy, FmtMYSlash, FmtMySlash>>

\* DataValidator.is_valid_date_format / validate_date
is_valid_date_format(date_string, accepted_date_formats) ==
    \E k \in 1..Len(accepted_date_formats) : Strptime(date_string, accepted_date_formats[k])

\* DataValidator.has_special_characters_except_quotes_and_parenthesis
has_special_characters_except_quotes_and_parenthesis(s) ==
    \E i \in 1..Len(s) : s[i] \notin {"\"", "(", ")"} /\ s[i] \notin Letter /\ s[i] # " "

(***************************************************************************)
(* Cells of a frame.                                                       *)
(***************************************************************************)
Null == [k |-> "null", s |-> <<>>, n |-> 0]

StrCell(x) == [k |-> "str", s |-> x, n |-> 0]

IntCell(v) == [k |-> "int", s |-> <<>>, n |-> v]

\* pd.isna / pd.notna
IsNa(c) == c.k = "null"

\* str(value) of a non-null cell
PyStr(c) == IF c.k = "int" THEN IntStr(c.n) ELSE c.s

(***************************************************************************)
(* Rule names, display-format tokens and the rule catalog                  *)
(* (table validation_rule_types).                                          *)
(***************************************************************************)
RRequired == <<"R", "e", "q", "u", "i", "r", "e", "d">>

RInt == <<"I", "n", "t">>

RFloat == <<"F", "l", "o", "a", "t">>

RText == <<"T", "e", "x", "t">>

REmail == <<"E", "m", "a", "i", "l">>

RDate == <<"D", "a", "t", "e">>

RBoolean == <<"B", "o", "o", "l", "e", "a", "n">>

RAlphanumeric == <<"A", "l", "p", "h", "a", "n", "u", "m", "e", "r", "i", "c">>

RDateDMY == <<"D", "a", "t", "e", "(", "D", "D", "-", "M", "M", "-", "Y", "Y", "Y", "Y", ")">>

RDateMY == <<"D", "a", "t", "e", "(", "M", "M", "/", "Y", "Y", ")">>

RDateNoFormat == <<"D", "a", "t", "e", "(", "A", "N", "Y", ")">>

RDateUnknown == <<"D", "a", "t", "e", "(", "Y", "Y", "Y", "Y", ")">>

RIntAndAlnum == <<"I", "n", "t", "A", "n", "d", "A", "l", "n", "u", "m">>

RIntOrEmail == <<"I", "n", "t", "O", "r", "E", "m", "a", "i", "l">>

RNested == <<"N", "e", "s", "t", "e", "d">>

REmptyAnd == <<"E", "m", "p", "t", "y", "A", "n", "d">>

TokDMY == <<"D", "D", "-", "M", "M", "-", "Y", "Y", "Y", "Y">>

TokMDY == <<"M", "M", "-", "D", "D", "-", "Y", "Y", "Y", "Y">>

TokMDYSlash == <<"M", "M", "/", "D", "D", "/", "Y", "Y", "Y", "Y">>

TokDMYSlash == <<"D", "D", "/", "M", "M", "/", "Y", "Y", "Y", "Y">>

TokMY == <<"M", "M", "-", "Y", "Y", "Y", "Y">>

TokMy == <<"M", "M", "-", "Y", "Y">>

TokMYSlash == <<"M", "M", "/", "Y", "Y", "Y", "Y">>

TokMySlash == <<"M", "M", "/", "Y", "Y">>

TokOther == <<"Y", "Y", "Y", "Y">>

NoneStr == <<"N", "o", "n", "e">>

NullStr == <<"N", "U", "L", "L">>

EmptyStr == <<"E", "M", "P", "T", "Y">>

DatePrefix == <<"D", "a", "t", "e", "(">>

\* format_map.get(source_format, '%d-%m-%Y')
format_map(token) ==
    CASE token = TokMDY -> FmtMDY
      [] token = TokDMY -> FmtDMY
      [] token = TokMDYSlash -> FmtMDYSlash
      [] token = TokDMYSlash -> FmtDMYSlash
      [] token = TokMY -> FmtMY
      [] token = TokMy -> FmtMy
      [] token = TokMYSlash -> FmtMYSlash
      [] token = TokMySlash -> FmtMySlash
      [] OTHER -> FmtDMY

\* a row of validation_rule_types; source_format <<>> is SQL NULL, params_json
\* tells whether parameters is JSON text (a formula rule stores raw formula text)
Descriptor(custom, json, logic, base, src) ==
    [found |-> TRUE, is_custom |-> custom, params_json |-> json,
     logic |-> logic, base_rules |-> base, source_format |-> src]

\* cursor.fetchone() when no row matches
NoRule ==
    [found |-> FALSE, is_custom |-> FALSE, params_json |-> FALSE,
     logic |-> "", base_rules |-> <<>>, source_format |-> <<>>]

BuiltIn(src) == Descriptor(FALSE, TRUE, "", <<>>, src)

\* ValidationRule.create_default_rules
default_rules ==
    (RRequired :> BuiltIn(<<>>)) @@ (RInt :> BuiltIn(<<>>)) @@
    (RFloat :> BuiltIn(<<>>)) @@ (RText :> BuiltIn(<<>>)) @@
    (REmail :> BuiltIn(<<>>)) @@ (RDate :> BuiltIn(TokDMY)) @@
    (RBoolean :> BuiltIn(<<>>)) @@ (RAlphanumeric :> BuiltIn(<<>>))

\* SELECT ... FROM validation_rule_types WHERE rule_name = %s ; fetchone()
fetch_rule(cat, rule_name) == IF rule_name \in DOMAIN cat THEN cat[rule_name] ELSE NoRule

(***************************************************************************)
(* models/validation.py: DataValidator.check_special_characters_in_column  *)
(*                                                                         *)
(* A frame is a function from column names to columns (sequences of cells  *)
(* of one length).  The running result of a call is                        *)
(* [raised, count, locs]: special_char_count and error_cell_locations are  *)
(* kept separately, as the code keeps them.                                *)
(***************************************************************************)
Loc(i, value, rule_failed, reason) ==
    [row |-> i, value |-> value, rule |-> rule_failed, reason |-> reason]

NoErrors == [raised |-> FALSE, count |-> 0, locs |-> <<>>]

\* a slip of Emit: the location is appended, the counter is not advanced
EmitUncounted(acc, loc) == [acc EXCEPT !.locs = Append(@, loc)]

\* special_char_count += 1 ; error_cell_locations.append(loc)
Emit(acc, loc) == [acc EXCEPT !.count = @ + 1, !.locs = Append(@, loc)]

\* an exception leaves the function: no value is returned
Raise(acc) == [acc EXCEPT !.raised = TRUE]

\* len(df)
RowCount(d) == IF DOMAIN d = {} THEN 0 ELSE Len(d[CHOOSE c \in DOMAIN d : TRUE])

\* df.iloc[[i-1]]: the frame of the single row i (1-based here)
OneRow(d, i) == [c \in DOMAIN d |-> <<d[c][i]>>]

\* str(cell_value).strip() if pd.notna(cell_value) else ""
Coerce(cell) == IF ~IsNa(cell) THEN Strip(PyStr(cell)) ELSE <<>>

\* f"{rule_data['source_format']}" of a fetched row
SourceFormatText(rule_data) ==
    IF rule_data.source_format = <<>> THEN NoneStr ELSE rule_data.source_format

\* a slip of AcceptedFormats: the source_format of the rule is ignored
AcceptedFormatsFromCaller(metadata_type, rule_data, accepted_date_formats) == accepted_date_formats

\* lines 189-196: the formats a Date(...) rule is checked against
AcceptedFormats(metadata_type, rule_data, accepted_date_formats) ==
    IF /\ StartsWith(metadata_type, DatePrefix)
       /\ rule_data.found
       /\ rule_data.source_format # <<>>
    THEN <<format_map(rule_data.source_format)>>
    ELSE accepted_date_formats

\* lines 244-321: one iteration of the loop over the cells, standard rules
StandardCell(acc, i, cell, metadata_type, rule_data, accepted_formats, check_null_cells) ==
    IF check_null_cells /\ IsNa(cell)
    THEN Emit(acc, Loc(i, NullStr, metadata_type, <<"Value is null", <<>>>>))
    ELSE
    LET cell_value == Coerce(cell)
    IN  IF cell_value = <<>> /\ metadata_type = RRequired
        THEN Emit(acc, Loc(i, EmptyStr, metadata_type, <<"Value is empty", <<>>>>))
        ELSE IF StartsWith(metadata_type, DatePrefix)
        THEN IF cell_value = <<>>
             THEN Emit(acc, Loc(i, EmptyStr, metadata_type, <<"Value is empty", <<>>>>))
             ELSE IF ~is_valid_date_format(cell_value, accepted_formats)
             THEN IF ~rule_data.found
                  THEN Raise(acc)   \* rule_data['source_format'] on None
                  ELSE Emit(acc, Loc(i, cell_value, metadata_type,
                                     <<"Invalid date format (expected ",
                                       SourceFormatText(rule_data)>>))
             ELSE acc
        ELSE IF metadata_type = RAlphanumeric
        THEN IF cell_value = <<>>
             THEN Emit(acc, Loc(i, cell_value, metadata_type,
                                <<"Value is empty or contains only whitespace", <<>>>>))
             ELSE IF ~AlnumMatch(cell_value)
             THEN Emit(acc, Loc(i, cell_value, metadata_type,
                                <<"Contains non-alphanumeric characters", <<>>>>))
             ELSE acc
        ELSE IF metadata_type = RInt
        THEN IF ~IsDigitStr(RemoveFirst(cell_value, "-"))
             THEN Emit(acc, Loc(i, cell_value, metadata_type, <<"Must be an integer", <<>>>>))
             ELSE acc
        ELSE IF metadata_type = RFloat
        THEN IF ~PyFloatOk(cell_value)
             THEN Emit(acc, Loc(i, cell_value, metadata_type,
                                <<"Must be a number (integer or decimal)", <<>>>>))
             ELSE acc
        ELSE IF metadata_type = RText
        THEN IF has_special_characters_except_quotes_and_parenthesis(cell_value)
             THEN Emit(acc, Loc(i, cell_value, metadata_type,
                                <<"Contains invalid characters", <<>>>>))
             ELSE acc
        ELSE IF metadata_type = REmail
        THEN IF ~EmailMatch(cell_value)
             THEN Emit(acc, Loc(i, cell_value, metadata_type, <<"Invalid email format", <<>>>>))
             ELSE acc
        ELSE IF metadata_type = RBoolean
        THEN IF ~BoolMatch(cell_value)
             THEN Emit(acc, Loc(i, cell_value, metadata_type,
                                <<"Must be a boolean (true/false or 0/1)", <<>>>>))
             ELSE acc
        ELSE acc

\* lines 244-321: the loop over the cells of the column, from row i on
RECURSIVE StandardLoop(_, _, _, _, _, _, _)
StandardLoop(acc, i, column, metadata_type, rule_data, accepted_formats, check_null_cells) ==
    IF acc.raised \/ i > Len(column) THEN acc
    ELSE StandardLoop(StandardCell(acc, i, column[i], metadata_type, rule_data,
                                   accepted_formats, check_null_cells),
                      i + 1, column, metadata_type, rule_data, accepted_formats,
                      check_null_cells)

\* line 222: valid = True if logic == "OR" else False
InitialValid(logic) == IF logic = "OR" THEN TRUE ELSE FALSE

\* lines 227-230: the combined flag after one base rule
CombineValid(valid, logic, base_valid) ==
    IF logic = "AND" THEN valid /\ (base_valid = 0)
    ELSE IF logic = "OR" THEN valid \/ (base_valid = 0)
    ELSE valid

\* a slip of BaseErrorLoc: the row number of the one-row sub-frame is kept
BaseErrorLocSubRow(i, cell_value, rule_failed, err) ==
    Loc(err.row, cell_value, rule_failed, err.reason)

\* line 236: the location recorded for one error of a base rule
BaseErrorLoc(i, cell_value, rule_failed, err) == Loc(i, cell_value, rule_failed, err.reason)

\* lines 232-236: for err in base_errors: count += 1 ; append
RECURSIVE EmitBaseErrors(_, _, _, _, _, _)
EmitBaseErrors(acc, k, base_errors, i, cell_value, rule_failed) ==
    IF k > Len(base_errors) THEN acc
    ELSE EmitBaseErrors(Emit(acc, BaseErrorLoc(i, cell_value, rule_failed, base_errors[k])),
                        k + 1, base_errors, i, cell_value, rule_failed)

RECURSIVE check_special_characters_in_column(_, _, _, _, _, _)
RECURSIVE BaseRulesLoop(_, _, _, _, _, _, _, _, _, _)
RECURSIVE CustomLoop(_, _, _, _, _, _, _, _)

\* lines 223-236: the loop over base_rules for the cell of row i, from the
\* k-th base rule on; st = [acc, valid]
BaseRulesLoop(st, k, cat, d, col_name, i, cell_value, metadata_type, rule_data, args) ==
    IF st.acc.raised \/ k > Len(rule_data.base_rules) THEN st
    ELSE
    LET sub == check_special_characters_in_column(cat, OneRow(d, i), col_name,
                   rule_data.base_rules[k], args.formats, args.check_null_cells)
    IN  IF sub.raised THEN [st EXCEPT !.acc = Raise(@)]
        ELSE BaseRulesLoop(
                 [acc |-> IF sub.count > 0
                          THEN EmitBaseErrors(st.acc, 1, sub.locs, i, cell_value, metadata_type)
                          ELSE st.acc,
                  valid |-> CombineValid(st.valid, rule_data.logic, sub.count)],
                 k + 1, cat, d, col_name, i, cell_value, metadata_type, rule_data, args)

\* lines 204-241: one iteration of the loop over the cells, custom rules
CustomCell(acc, i, cat, d, col_name, metadata_type, rule_data, args) ==
    LET cell_value == Coerce(d[col_name][i])
    IN  IF args.check_null_cells /\ IsNa(StrCell(cell_value))
        THEN Emit(acc, Loc(i, NullStr, metadata_type, <<"Value is null", <<>>>>))
        ELSE IF cell_value = <<>> /\ metadata_type = RRequired
        THEN Emit(acc, Loc(i, EmptyStr, metadata_type, <<"Value is empty", <<>>>>))
        ELSE
        LET st == BaseRulesLoop([acc |-> acc, valid |-> InitialValid(rule_data.logic)],
                                1, cat, d, col_name, i, cell_value, metadata_type,
                                rule_data, args)
        IN  IF st.acc.raised THEN st.acc
            ELSE IF ~st.valid /\ st.acc.locs = <<>>
            THEN Emit(st.acc, Loc(i, cell_value, metadata_type,
                                  <<"Failed custom rule ", metadata_type>>))
            ELSE st.acc

CustomLoop(acc, i, cat, d, col_name, metadata_type, rule_data, args) ==
    IF acc.raised \/ i > Len(d[col_name]) THEN acc
    ELSE CustomLoop(CustomCell(acc, i, cat, d, col_name, metadata_type, rule_data, args),
                    i + 1, cat, d, col_name, metadata_type, rule_data, args)

\* lines 172-326
check_special_characters_in_column(cat, d, col_name, metadata_type, accepted_date_formats, check_null_cells) ==
    LET rule_data == fetch_rule(cat, metadata_type)
        accepted_formats == AcceptedFormats(metadata_type, rule_data, accepted_date_formats)
        args == [formats |-> accepted_date_formats, check_null_cells |-> check_null_cells]
    IN  IF rule_data.found /\ rule_data.is_custom /\ ~StartsWith(metadata_type, DatePrefix)
        THEN IF ~rule_data.params_json
             THEN Raise(NoErrors)   \* json.loads(parameters) of formula text
             ELSE IF col_name \notin DOMAIN d
             THEN Raise(NoErrors)   \* KeyError
             ELSE CustomLoop(NoErrors, 1, cat, d, col_name, metadata_type, rule_data, args)
        ELSE IF col_name \notin DOMAIN d
             THEN Raise(NoErrors)   \* KeyError
             ELSE StandardLoop(NoErrors, 1, d[col_name], metadata_type, rule_data,
                               accepted_formats, check_null_cells)

(***************************************************************************)
(* services/validator.py: DataValidator.check_column_validation            *)
(***************************************************************************)
\* lines 100-157: one iteration of the loop over the cells
ServiceCell(acc, i, cell, metadata_type, rule_data, accepted_formats, check_null_cells) ==
    IF check_null_cells /\ IsNa(cell)
    THEN Emit(acc, Loc(i, NullStr, metadata_type, <<"Value is null", <<>>>>))
    ELSE
    LET cell_value == Coerce(cell)
    IN  IF cell_value = <<>> /\ metadata_type = RRequired
        THEN Emit(acc, Loc(i, EmptyStr, metadata_type, <<"Value is empty", <<>>>>))
        ELSE IF StartsWith(metadata_type, DatePrefix)
        THEN IF ~is_valid_date_format(cell_value, accepted_formats)
             THEN IF ~rule_data.found
                  THEN Raise(acc)   \* rule_data.get on None
                  ELSE Emit(acc, Loc(i, cell_value, metadata_type,
                                     <<"Invalid date format (expected ",
                                       SourceFormatText(rule_data)>>))
             ELSE acc
        ELSE IF metadata_type = RAlphanumeric
        THEN IF ~AlnumMatch(cell_value)
             THEN Emit(acc, Loc(i, cell_value, metadata_type,
                                <<"Contains non-alphanumeric characters", <<>>>>))
             ELSE acc
        ELSE IF metadata_type = RInt
        THEN IF ~IsDigitStr(RemoveFirst(cell_value, "-"))
             THEN Emit(acc, Loc(i, cell_value, metadata_type, <<"Must be an integer", <<>>>>))
             ELSE acc
        ELSE IF metadata_type = RFloat
        THEN IF ~PyFloatOk(cell_value)
             THEN Emit(acc, Loc(i, cell_value, metadata_type,
                                <<"Must be a number (integer or decimal)", <<>>>>))
             ELSE acc
        ELSE IF metadata_type = REmail
        THEN IF ~EmailMatch(cell_value)
             THEN Emit(acc, Loc(i, cell_value, metadata_type, <<"Invalid email format", <<>>>>))
             ELSE acc
        ELSE IF metadata_type = RBoolean
        THEN IF ~BoolMatch(cell_value)
             THEN Emit(acc, Loc(i, cell_value, metadata_type,
                                <<"Must be a boolean (true/false or 0/1)", <<>>>>))
             ELSE acc
        ELSE acc

RECURSIVE ServiceLoop(_, _, _, _, _, _, _)
ServiceLoop(acc, i, column, metadata_type, rule_data, accepted_formats, check_null_cells) ==
    IF acc.raised \/ i > Len(column) THEN acc
    ELSE ServiceLoop(ServiceCell(acc, i, column[i], metadata_type, rule_data,
                                 accepted_formats, check_null_cells),
                     i + 1, column, metadata_type, rule_data, accepted_formats,
                     check_null_cells)

\* lines 71-163
check_column_validation(cat, d, col_name, metadata_type, accepted_date_formats, check_null_cells) ==
    LET rule_data == fetch_rule(cat, metadata_type)
        accepted_formats == AcceptedFormats(metadata_type, rule_data, accepted_date_formats)
    IN  IF col_name \notin DOMAIN d
        THEN Raise(NoErrors)   \* KeyError
        ELSE ServiceLoop(NoErrors, 1, d[col_name], metadata_type, rule_data,
                         accepted_formats, check_null_cells)

(***************************************************************************)
(* Column Type Detector and Default Rule Assigner.                         *)
(***************************************************************************)
\* series.dropna().astype(str)
RECURSIVE NonNull(_)
NonNull(column) ==
    IF column = <<>> THEN <<>>
    ELSE IF IsNa(Head(column)) THEN NonNull(Tail(column))
    ELSE <<PyStr(Head(column))>> \o NonNull(Tail(column))

\* series.str.match(...).all() for each pattern of the detector
AllEmail(values) == \A i \in 1..Len(values) : EmailMatch(values[i])

AllBool(values) == \A i \in 1..Len(values) : BoolMatch(values[i])

\* a slip of AllInt: the pattern without its end anchor, ^-?\d+
AllIntUnanchored(values) ==
    \A i \in 1..Len(values) :
        \E n \in 1..Len(values[i]) : IntMatch(SubSeq(values[i], 1, n))

AllInt(values) ==
    \A i \in 1..Len(values) : IntMatch(values[i])

AllFloat(values) == \A i \in 1..Len(values) : FloatMatch(values[i])

AllAlnum(values) == \A i \in 1..Len(values) : AlnumMatch(values[i])

\* pd.to_datetime(non_null, format=fmt) does not raise
ToDatetimeAll(values, fmt) == \A i \in 1..Len(values) : ToDatetimeOk(values[i], fmt)

\* a slip of detect_column_type: the Float test placed before the Int test
detect_column_type_FloatFirst(series) ==
    LET non_null == NonNull(series)
    IN  IF non_null = <<>> THEN RText
        ELSE IF AllEmail(non_null) THEN REmail
        ELSE IF ToDatetimeAll(non_null, FmtDMY) THEN RDate
        ELSE IF ToDatetimeAll(non_null, FmtYMD) THEN RDate
        ELSE IF AllBool(non_null) THEN RBoolean
        ELSE IF AllFloat(non_null) THEN RFloat
        ELSE IF AllInt(non_null) THEN RInt
        ELSE IF AllAlnum(non_null) THEN RAlphanumeric
        ELSE RText

\* a slip of detect_column_type: the Int test placed before the Boolean test
detect_column_type_IntFirst(series) ==
    LET non_null == NonNull(series)
    IN  IF non_null = <<>> THEN RText
        ELSE IF AllEmail(non_null) THEN REmail
        ELSE IF ToDatetimeAll(non_null, FmtDMY) THEN RDate
        ELSE IF ToDatetimeAll(non_null, FmtYMD) THEN RDate
        ELSE IF AllInt(non_null) THEN RInt
        ELSE IF AllBool(non_null) THEN RBoolean
        ELSE IF AllFloat(non_null) THEN RFloat
        ELSE IF AllAlnum(non_null) THEN RAlphanumeric
        ELSE RText

\* models/validation.py lines 87-124, services/validator.py lines 12-48
detect_column_type(series) ==
    LET non_null == NonNull(series)
    IN  IF non_null = <<>> THEN RText
        ELSE IF AllEmail(non_null) THEN REmail
        ELSE IF ToDatetimeAll(non_null, FmtDMY) THEN RDate
        ELSE IF ToDatetimeAll(non_null, FmtYMD) THEN RDate
        ELSE IF AllBool(non_null) THEN RBoolean
        ELSE IF AllInt(non_null) THEN RInt
        ELSE IF AllFloat(non_null) THEN RFloat
        ELSE IF AllAlnum(non_null) THEN RAlphanumeric
        ELSE RText

ExemptPrefixes ==
    {<<"n", "a", "m", "e">>, <<"a", "d", "d", "r", "e", "s", "s">>, <<"p", "h", "o", "n", "e">>, <<"u", "s", "e", "r", "n", "a", "m", "e">>, <<"s", "t", "a", "t", "u", "s">>, <<"p", "e", "r", "i", "o", "d">>}

\* any(col.lower().startswith(prefix) for prefix in [...])
HasExemptPrefix(col) == \E p \in ExemptPrefixes : StartsWith(StrLower(col), p)

\* a slip of ModelColumnRules: the test of the detected type dropped
ModelColumnRulesPrefixOnly(col, col_type) ==
    IF ~HasExemptPrefix(col)
    THEN <<RRequired, col_type>>
    ELSE <<RRequired, RText>>

\* models/validation.py lines 131-141: the rules of one column
ModelColumnRules(col, col_type) ==
    IF col_type # RText \/ ~HasExemptPrefix(col)
    THEN <<RRequired, col_type>>
    ELSE <<RRequired, RText>>

\* a slip of ServiceColumnRules: the detected type kept for an exempt name
ServiceColumnRulesTypeKept(col, col_type) ==
    IF col_type # RText \/ ~HasExemptPrefix(col)
    THEN <<RRequired, col_type>>
    ELSE <<RRequired, RText>>

\* services/validator.py lines 56-66: the rules of one column
ServiceColumnRules(col, col_type) ==
    IF ~HasExemptPrefix(col)
    THEN <<RRequired, col_type>>
    ELSE <<RRequired, RText>>

\* models/validation.py lines 127-142; df[col] raises KeyError for a header
\* that is not a column
assign_default_rules_to_columns(d, headers) ==
    IF \E k \in 1..Len(headers) : headers[k] \notin DOMAIN d
    THEN [raised |-> TRUE, assignments |-> <<>>]
    ELSE [raised |-> FALSE,
          assignments |-> [col \in {headers[k] : k \in 1..Len(headers)} |->
                              ModelColumnRules(col, detect_column_type(d[col]))]]

\* services/validator.py lines 51-68
assign_default_rules(d, headers) ==
    IF \E k \in 1..Len(headers) : headers[k] \notin DOMAIN d
    THEN [raised |-> TRUE, assignments |-> <<>>]
    ELSE [raised |-> FALSE,
          assignments |-> [col \in {headers[k] : k \in 1..Len(headers)} |->
                              ServiceColumnRules(col, detect_column_type(d[col]))]]

(***************************************************************************)
(* The validation engine as a state machine: a caller holds a Typed Frame  *)
(* and a catalog, calls validate, and may call it again with the same      *)
(* arguments.                                                              *)
(***************************************************************************)
ColAge == <<"A", "g", "e">>

RDateMissing == <<"D", "a", "t", "e", "(", "M", "M", "-", "Y", "Y", ")">>

RUnknown == <<"P", "h", "o", "n", "e">>

RFormula == <<"T", "o", "t", "a", "l", "C", "h", "e", "c", "k">>

\* the catalog of the model: the default rules, Date(...) rules with a known
\* token, without source_format and with a token outside the table, composite
\* rules, and a formula rule; Date(MM-YY) and Phone have no row
EngineCatalog ==
    default_rules @@
    (RDateDMY :> BuiltIn(TokDMY)) @@
    (RDateMY :> BuiltIn(TokMySlash)) @@
    (RDateNoFormat :> BuiltIn(<<>>)) @@
    (RDateUnknown :> BuiltIn(TokOther)) @@
    (RIntAndAlnum :> Descriptor(TRUE, TRUE, "AND", <<RInt, RAlphanumeric>>, <<>>)) @@
    (RIntOrEmail :> Descriptor(TRUE, TRUE, "OR", <<RInt, REmail>>, <<>>)) @@
    (RNested :> Descriptor(TRUE, TRUE, "OR", <<RIntOrEmail, RBoolean>>, <<>>)) @@
    (REmptyAnd :> Descriptor(TRUE, TRUE, "AND", <<>>, <<>>)) @@
    (RFormula :> Descriptor(TRUE, FALSE, "", <<>>, <<>>))

RuleNames == DOMAIN EngineCatalog \cup {RDateMissing, RUnknown}

CustomRuleNames == {RIntAndAlnum, RIntOrEmail, RNested, REmptyAnd}

EnginePool ==
    {Null, StrCell(<<>>), StrCell(<<" ", "7", " ">>), StrCell(<<"a", "b", "c">>), StrCell(<<"1", "-", "2">>),
     StrCell(<<"1", ".", "5">>), StrCell(<<"a", "@", "b", ".", "c", "o", "m">>), StrCell(<<"b", "a", "d", "-", "e", "m", "a", "i", "l">>), StrCell(<<"T", "R", "U", "E">>),
     StrCell(<<"0", "1", "-", "0", "2", "-", "2", "0", "2", "3">>), StrCell(<<"0", "2", "/", "2", "3">>), StrCell(<<"a", " ", "b">>), StrCell(<<"0">>),
     IntCell(25)}

\* the columns of at most n cells over pool
ColumnsOver(pool, n) == UNION {[1..k -> pool] : k \in 0..n}

DateFormatChoices == {DefaultDateFormats, <<FmtMySlash>>}

NoCall == [op |-> "none", col |-> <<>>, rule |-> <<>>, formats |-> <<>>,
           check_null_cells |-> FALSE, headers |-> <<>>,
           path |-> <<>>, max_rows |-> 0, sniffed |-> FALSE]

NoRet == [raised |-> FALSE, count |-> 0, locs |-> <<>>, type |-> <<>>,
          assignments |-> <<>>, valid |-> FALSE,
          index |-> 0, delimiter |-> <<>>, error |-> <<>>, sheets |-> <<>>]

\* no file on disk: the engines read the frame and the catalog only
NoFiles == <<>>

\* no call of validate in progress
NoStack == <<>>

ValidateRet(r) == [NoRet EXCEPT !.raised = r.raised,
                                !.count = IF r.raised THEN 0 ELSE r.count,
                                !.locs = IF r.raised THEN <<>> ELSE r.locs]

\* a slip of FrameAfterValidate: the coerced value is stored back into the frame
FrameCoercedInPlace(d, col_name) ==
    [d EXCEPT ![col_name] = [i \in 1..Len(d[col_name]) |-> StrCell(Coerce(d[col_name][i]))]]

\* the frame after the loop of validate: cell_value is a local of the loop
\* (lines 205 and 254), the frame is not written
FrameAfterValidate(d, col_name) == d

Init ==
    /\ df \in {(ColAge :> column) : column \in ColumnsOver(EnginePool, MaxRows)}
    /\ catalog = EngineCatalog
    /\ files = NoFiles
    /\ stack = NoStack
    /\ pc = "idle"
    /\ call = NoCall
    /\ ret = NoRet
    /\ ret2 = NoRet

\* the date formats matter to Date(...) rules and to composite rules only
FormatChoicesFor(rule) ==
    IF StartsWith(rule, DatePrefix) \/ rule \in CustomRuleNames
    THEN DateFormatChoices ELSE {DefaultDateFormats}

\* a call of models/validation.py check_special_characters_in_column
Validate ==
    /\ pc = "idle"
    /\ \E rule \in RuleNames, chk \in BOOLEAN :
       \E fmts \in FormatChoicesFor(rule) :
          /\ call' = [NoCall EXCEPT !.op = "validate", !.col = ColAge, !.rule = rule,
                                    !.formats = fmts, !.check_null_cells = chk]
          /\ ret' = ValidateRet(check_special_characters_in_column(
                                    catalog, df, ColAge, rule, fmts, chk))
          /\ df' = FrameAfterValidate(df, ColAge)
    /\ pc' = "validated"
    /\ UNCHANGED <<catalog, files, stack, ret2>>

\* a call of services/validator.py check_column_validation
ServiceValidate ==
    /\ pc = "idle"
    /\ \E rule \in RuleNames, chk \in BOOLEAN :
       \E fmts \in FormatChoicesFor(rule) :
          /\ call' = [NoCall EXCEPT !.op = "service", !.col = ColAge, !.rule = rule,
                                    !.formats = fmts, !.check_null_cells = chk]
          /\ ret' = ValidateRet(check_column_validation(
                                    catalog, df, ColAge, rule, fmts, chk))
          /\ df' = FrameAfterValidate(df, ColAge)
    /\ pc' = "validated"
    /\ UNCHANGED <<catalog, files, stack, ret2>>

\* the same call once more on the frame and the catalog as they are now
ValidateAgain ==
    /\ pc = "validated"
    /\ ret2' = ValidateRet(
                  IF call.op = "validate"
                  THEN check_special_characters_in_column(
                           catalog, df, call.col, call.rule, call.formats,
                           call.check_null_cells)
                  ELSE check_column_validation(
                           catalog, df, call.col, call.rule, call.formats,
                           call.check_null_cells))
    /\ pc' = "revalidated"
    /\ UNCHANGED <<df, catalog, files, stack, call, ret>>

Next == Validate \/ ServiceValidate \/ ValidateAgain

Spec == Init /\ [][Next]_vars

(***************************************************************************)
(* Properties of validate.                                                 *)
(***************************************************************************)
Returned == pc \in {"validated", "revalidated"} /\ ~ret.raised

CalledColumn == df[call.col]

\* C1: whenever validate (either engine, any rule kind) returns, the returned
\* error_count equals the number of entries of the returned locations list.
C1_CountEqualsLocations == Returned => ret.count = Len(ret.locs)

\* a composite rule has returned several locations
C1_Witness ==
    /\ Returned
    /\ call.rule \in CustomRuleNames
    /\ ret.count >= 2
    /\ Len(ret.locs) >= 2

\* the locations obtained by validating row k of the called column alone
RowAlone(k) ==
    IF call.op = "validate"
    THEN check_special_characters_in_column(catalog, OneRow(df, k), call.col, call.rule,
                                            call.formats, call.check_null_cells)
    ELSE check_column_validation(catalog, OneRow(df, k), call.col, call.rule,
                                 call.formats, call.check_null_cells)

ScenarioIntColumn == <<IntCell(25), StrCell(<<"a", "b", "c">>)>>

\* C2: every location carries the number k+1 of the frame row k (0-indexed)
\* that caused it: it is a location that row produces when validated alone,
\* renumbered; locations come in row order; and rule Int on the column
\* (25, abc) gives exactly (2, "abc", "Int", "Must be an integer").
C2_RowNumbering ==
    Returned =>
        /\ \A j \in 1..Len(ret.locs) :
              LET l == ret.locs[j]
              IN  /\ l.row \in 1..Len(CalledColumn)
                  /\ \E m \in 1..Len(RowAlone(l.row).locs) :
                        RowAlone(l.row).locs[m] = [l EXCEPT !.row = 1]
        /\ \A j \in 1..(Len(ret.locs) - 1) : ret.locs[j].row <= ret.locs[j + 1].row
        /\ (CalledColumn = ScenarioIntColumn /\ call.rule = RInt) =>
              ret.locs = <<Loc(2, <<"a", "b", "c">>, RInt, <<"Must be an integer", <<>>>>)>>

\* a composite rule reports, for the second row of a column, the error that a
\* base rule found on the one-row sub-frame of that row
C2_Witness ==
    /\ Returned
    /\ call.op = "validate"
    /\ call.rule = RIntAndAlnum
    /\ Len(CalledColumn) = 2
    /\ \E j \in 1..Len(ret.locs) :
          ret.locs[j].row = 2 /\ ret.locs[j].reason[1] = "Must be an integer"
    /\ CalledColumn = ScenarioIntColumn

\* the predicate of a rule on a cell, as the specification states it
RECURSIVE Satisfies(_, _)
Satisfies(cell, rule) ==
    LET v == Coerce(cell)
        rd == fetch_rule(catalog, rule)
    IN  /\ ~IsNa(cell)
        /\ CASE rule = RRequired -> v # <<>>
             [] rule = RInt -> IntMatch(v)
             [] rule = RFloat -> PyFloatOk(v)
             [] rule = RText -> \A i \in 1..Len(v) : v[i] \in Letter \cup {" ", "\"", "(", ")"}
             [] rule = REmail -> EmailMatch(v)
             [] rule = RBoolean -> BoolMatch(v)
             [] rule = RAlphanumeric -> AlnumMatch(v)
             [] rule \in {RDateDMY, RDateMY, RDateUnknown} ->
                    Strptime(v, format_map(rd.source_format))
             [] rule \in CustomRuleNames ->
                    /\ rd.base_rules # <<>>
                    /\ \A k \in 1..Len(rd.base_rules) : Satisfies(cell, rd.base_rules[k])
             [] OTHER -> FALSE

SatisfiableRules ==
    {RRequired, RInt, RFloat, RText, REmail, RBoolean, RAlphanumeric,
     RDateDMY, RDateMY, RDateUnknown} \cup CustomRuleNames

\* C4: if every cell of the column satisfies the rule (built-in, Date(<fmt>),
\* or a composite all of whose base rules every cell satisfies), validate
\* returns error_count 0 and no locations.
C4_AllSatisfiedNoErrors ==
    (/\ pc \in {"validated", "revalidated"}
     /\ call.op = "validate"
     /\ call.rule \in SatisfiableRules
     /\ \A i \in 1..Len(CalledColumn) : Satisfies(CalledColumn[i], call.rule))
    => (~ret.raised /\ ret.count = 0 /\ ret.locs = <<>>)

\* C4 restricted to the rules that are not composite (holds of the code)
C4_BuiltInOnly ==
    (/\ pc \in {"validated", "revalidated"}
     /\ call.op = "validate"
     /\ call.rule \in SatisfiableRules \ CustomRuleNames
     /\ \A i \in 1..Len(CalledColumn) : Satisfies(CalledColumn[i], call.rule))
    => (~ret.raised /\ ret.count = 0 /\ ret.locs = <<>>)

C10Rules == {RAlphanumeric, RFloat, RText, REmail, RBoolean}

\* the predicate of each rule of C10 on a trimmed value
C10Violates(rule, v) ==
    CASE rule = RAlphanumeric -> ~AlnumMatch(v)
      [] rule = RFloat -> ~PyFloatOk(v)
      [] rule = RText -> \E i \in 1..Len(v) : v[i] \notin Letter \cup {" ", "\"", "(", ")"}
      [] rule = REmail -> ~EmailMatch(v)
      [] rule = RBoolean -> ~BoolMatch(v)

C10Reasons(rule) ==
    CASE rule = RAlphanumeric -> {"Contains non-alphanumeric characters",
                                  "Value is empty or contains only whitespace"}
      [] rule = RFloat -> {"Must be a number (integer or decimal)"}
      [] rule = RText -> {"Contains invalid characters"}
      [] rule = REmail -> {"Invalid email format"}
      [] rule = RBoolean -> {"Must be a boolean (true/false or 0/1)"}

LocsOfRow(locs, i) == {j \in 1..Len(locs) : locs[j].row = i}

C10Body ==
    \A i \in 1..Len(CalledColumn) :
        ~IsNa(CalledColumn[i]) =>
            LET v == Coerce(CalledColumn[i])
                js == LocsOfRow(ret.locs, i)
            IN  IF C10Violates(call.rule, v)
                THEN /\ Cardinality(js) = 1
                     /\ \A j \in js :
                           /\ ret.locs[j].value = v
                           /\ ret.locs[j].rule = call.rule
                           /\ ret.locs[j].reason[1] \in C10Reasons(call.rule)
                ELSE js = {}

\* C10: for each rule in {Alphanumeric, Float, Text, Email, Boolean}, in either
\* engine, a non-null cell yields exactly one location (row, trimmed value,
\* rule, rule-specific reason) iff its trimmed value violates the rule's
\* predicate, and none otherwise.
C10_BuiltInIff ==
    (pc \in {"validated", "revalidated"} /\ call.rule \in C10Rules)
    => (~ret.raised /\ C10Body)

\* C10 for models/validation.py alone (holds of the code)
C10_ModelEngineOnly ==
    (pc \in {"validated", "revalidated"} /\ call.rule \in C10Rules /\ call.op = "validate")
    => (~ret.raised /\ C10Body)

(***************************************************************************)
(* The Column Type Detector and the Default Rule Assigner as a state       *)
(* machine: a caller holds a frame and calls detect or one of the two      *)
(* assigners.                                                              *)
(***************************************************************************)
ColName == <<"N", "a", "m", "e">>

ColEmail == <<"E", "m", "a", "i", "l">>

ColPhone == <<"P", "h", "o", "n", "e">>

ColStatus == <<"s", "t", "a", "t", "u", "s">>

ColMissing == <<"M", "i", "s", "s", "i", "n", "g">>

AssignColNames == {ColName, ColAge, ColEmail, ColPhone, ColStatus}

AssignPool ==
    {Null, StrCell(<<>>), StrCell(<<"0">>), StrCell(<<"1">>), StrCell(<<"2">>), StrCell(<<"t", "r", "u", "e">>),
     StrCell(<<"-", "1", "2">>), StrCell(<<"1", ".", "5">>), StrCell(<<"a", "b", "c">>), StrCell(<<"a", " ", "b">>),
     StrCell(<<"a", "@", "b", ".", "c", "o">>), StrCell(<<"0", "1", "-", "0", "2", "-", "2", "0", "2", "3">>), StrCell(<<"2", "0", "2", "3", "-", "0", "2", "-", "0", "1">>),
     IntCell(25)}

\* tests/test_services.py test_rule_assignment
TestFrame ==
    (ColName :> <<StrCell(<<"J", "o", "h", "n">>), StrCell(<<"J", "a", "n", "e">>)>>) @@
    (ColAge :> <<IntCell(25), IntCell(30)>>) @@
    (ColEmail :> <<StrCell(<<"j", "o", "h", "n", "@", "t", "e", "s", "t", ".", "c", "o", "m">>), StrCell(<<"j", "a", "n", "e", "@", "t", "e", "s", "t", ".", "c", "o", "m">>)>>)

TestHeaders == <<ColName, ColAge, ColEmail>>

BooleanScenario == <<StrCell(<<"t", "r", "u", "e">>), StrCell(<<"0">>), StrCell(<<"1">>)>>

MixedScenario == <<StrCell(<<"t", "r", "u", "e">>), StrCell(<<"0">>), StrCell(<<"1">>), StrCell(<<"2">>)>>

\* tests/test_services.py test_column_type_detection
TestSeries ==
    {<<StrCell(<<"t", "e", "s", "t", "@", "e", "x", "a", "m", "p", "l", "e", ".", "c", "o", "m">>), StrCell(<<"u", "s", "e", "r", "@", "d", "o", "m", "a", "i", "n", ".", "o", "r", "g">>)>>,
     <<StrCell(<<"1", "2", "3">>), StrCell(<<"4", "5", "6">>), StrCell(<<"7", "8", "9">>)>>,
     <<StrCell(<<"1", "2", ".", "3", "4">>), StrCell(<<"5", "6", ".", "7", "8">>), StrCell(<<"9", "0", ".", "1", "2">>)>>}

AssignFrames ==
    {(name :> column) : name \in AssignColNames,
                        column \in ColumnsOver(AssignPool, MaxRows)}
    \cup {(ColAge :> column) : column \in {BooleanScenario, MixedScenario} \cup TestSeries}
    \cup {TestFrame}

\* the orders in which a caller may list all the columns, single columns, and
\* a header that is not a column of the frame
HeaderChoices(d) ==
    LET n == Cardinality(DOMAIN d)
    IN  {h \in [1..n -> DOMAIN d] : \A i, j \in 1..n : h[i] = h[j] => i = j}
        \cup {<<c>> : c \in DOMAIN d}
        \cup {<<ColMissing>>}

InitAssign ==
    /\ df \in AssignFrames
    /\ catalog = EngineCatalog
    /\ files = NoFiles
    /\ stack = NoStack
    /\ pc = "idle"
    /\ call = NoCall
    /\ ret = NoRet
    /\ ret2 = NoRet

\* a call of detect_column_type / detect_column_types
DetectType ==
    /\ pc = "idle"
    /\ \E col \in DOMAIN df :
          /\ call' = [NoCall EXCEPT !.op = "detect", !.col = col]
          /\ ret' = [NoRet EXCEPT !.type = detect_column_type(df[col])]
    /\ pc' = "detected"
    /\ UNCHANGED <<df, catalog, files, stack, ret2>>

AssignRet(r) == [NoRet EXCEPT !.raised = r.raised, !.assignments = r.assignments]

\* a call of models/validation.py assign_default_rules_to_columns
AssignModel ==
    /\ pc = "idle"
    /\ \E headers \in HeaderChoices(df) :
          /\ call' = [NoCall EXCEPT !.op = "assign_model", !.headers = headers]
          /\ ret' = AssignRet(assign_default_rules_to_columns(df, headers))
    /\ pc' = "assigned"
    /\ UNCHANGED <<df, catalog, files, stack, ret2>>

\* a call of services/validator.py assign_default_rules
AssignService ==
    /\ pc = "idle"
    /\ \E headers \in HeaderChoices(df) :
          /\ call' = [NoCall EXCEPT !.op = "assign_service", !.headers = headers]
          /\ ret' = AssignRet(assign_default_rules(df, headers))
    /\ pc' = "assigned"
    /\ UNCHANGED <<df, catalog, files, stack, ret2>>

NextAssign == DetectType \/ AssignModel \/ AssignService

SpecAssign == InitAssign /\ [][NextAssign]_vars

(***************************************************************************)
(* Properties of the detector and the assigner.                            *)
(***************************************************************************)
DetectedValues == NonNull(df[call.col])

AllIntValues == DetectedValues # <<>> /\ AllInt(DetectedValues)

ZeroOne == {<<"0">>, <<"1">>}

\* C6 as stated: for every column with a value in which every non-null value
\* matches ^-?\d+$, detect_type returns Int.
C6_AllIntIsInt == (pc = "detected" /\ AllIntValues) => ret.type = RInt

\* C6 (amended): for every column with a non-null value in which every non-null
\* value matches ^-?\d+$ and not all of them are 0 or 1, detect_type returns
\* Int; when all of them are 0 or 1 it returns Boolean.
C6_AllIntIsIntUnlessBinary ==
    (pc = "detected" /\ AllIntValues) =>
        IF \A i \in 1..Len(DetectedValues) : DetectedValues[i] \in ZeroOne
        THEN ret.type = RBoolean
        ELSE ret.type = RInt

\* a column of integers, one of them negative and none of them binary, with a
\* null cell, has been classified
C6_Witness ==
    /\ pc = "detected"
    /\ AllIntValues
    /\ ret.type = RInt
    /\ \E i \in 1..Len(DetectedValues) : DetectedValues[i][1] = "-"
    /\ \E i \in 1..Len(df[call.col]) : IsNa(df[call.col][i])

\* C7 as stated: a column of values in {true, false, 0, 1} is Boolean, and
\* ["true","0","1","2"] is Int.
C7_BooleanThenInt ==
    pc = "detected" =>
        /\ (DetectedValues # <<>> /\ AllBool(DetectedValues)) => ret.type = RBoolean
        /\ df[call.col] = MixedScenario => ret.type = RInt

\* C7 (amended): a column of values that are all (case-insensitively) in
\* {true, false, 0, 1} is Boolean, and ["true","0","1","2"] is Alphanumeric:
\* "true" fails the Int and Float tests.
C7_BooleanThenAlphanumeric ==
    pc = "detected" =>
        /\ (DetectedValues # <<>> /\ AllBool(DetectedValues)) => ret.type = RBoolean
        /\ df[call.col] = MixedScenario => ret.type = RAlphanumeric

\* the column ["true","0","1"] has been classified
C7_Witness ==
    /\ pc = "detected"
    /\ df[call.col] = BooleanScenario
    /\ ret.type = RBoolean

AssignedBy(op) == pc = "assigned" /\ call.op = op /\ ~ret.raised

AssignedColumns == DOMAIN ret.assignments

\* the rule list the specification of the assigner gives a column
SpecRules(col) ==
    LET t == detect_column_type(df[col])
    IN  <<RRequired, IF t # RText \/ ~HasExemptPrefix(col) THEN t ELSE RText>>

\* C8 as stated: both assigners give every column Required first and then the
\* detected type when it is not Text or the name has no exempt prefix, and
\* Text otherwise.
C8_BothAssigners ==
    (AssignedBy("assign_model") \/ AssignedBy("assign_service")) =>
        \A col \in AssignedColumns : ret.assignments[col] = SpecRules(col)

\* C8 (amended): models/validation.py gives every column Required first and
\* then the detected type when it is not Text or the name has no exempt
\* prefix, and Text otherwise; services/validator.py gives Required first and
\* then the detected type when the name has no exempt prefix, and Text for
\* every name with an exempt prefix, whatever the detected type.
C8_EachAssigner ==
    /\ AssignedBy("assign_model") =>
          /\ AssignedColumns = {call.headers[k] : k \in 1..Len(call.headers)}
          /\ \A col \in AssignedColumns : ret.assignments[col] = SpecRules(col)
    /\ AssignedBy("assign_service") =>
          /\ AssignedColumns = {call.headers[k] : k \in 1..Len(call.headers)}
          /\ \A col \in AssignedColumns :
                /\ Len(ret.assignments[col]) = 2
                /\ ret.assignments[col][1] = RRequired
                /\ ret.assignments[col][2] =
                      IF HasExemptPrefix(col) THEN RText ELSE detect_column_type(df[col])

\* models/validation.py has given a column with an exempt name and integer
\* values the rules Required and Int
C8_Witness ==
    /\ AssignedBy("assign_model")
    /\ ColPhone \in AssignedColumns
    /\ ret.assignments[ColPhone] = <<RRequired, RInt>>

\* C9: assign_default_rules of services/validator.py gives a column whose name
\* starts with an exempt prefix Required and Text, a column with another name
\* Required and its detected type, and on the frame of the test: Name gets
\* Required and Text, Age Required and Int, Email Required and Email.
C9_ServiceAssignment ==
    AssignedBy("assign_service") =>
        /\ \A col \in AssignedColumns :
              IF HasExemptPrefix(col)
              THEN ret.assignments[col] = <<RRequired, RText>>
              ELSE ret.assignments[col] = <<RRequired, detect_column_type(df[col])>>
        /\ (df = TestFrame /\ call.headers = TestHeaders) =>
              /\ ret.assignments[ColName] = <<RRequired, RText>>
              /\ ret.assignments[ColAge] = <<RRequired, RInt>>
              /\ ret.assignments[ColEmail] = <<RRequired, REmail>>

\* the call of the test has returned
C9_Witness ==
    /\ AssignedBy("assign_service")
    /\ df = TestFrame
    /\ call.headers = TestHeaders
    /\ ret.assignments[ColName] = <<RRequired, RText>>

(***************************************************************************)
(* models/validation.py: DataValidator.evaluate_column_rule                *)
(*                                                                         *)
(* Numbers are held exactly as decimals of at most eleven places: a number *)
(* [h, t] is h hundredths plus t units of 1e-11, 0 <= t < 10^9.  The cells *)
(* and operands of the model are decimals on which the binary floating     *)
(* point of the code gives the same comparisons as decimal arithmetic.  The expression evaluator covers the   *)
(* sublanguage of the formulas of the model: numbers and names joined by   *)
(* + and -.                                                                *)
(***************************************************************************)
\* the index of the first occurrence of pat in s at or after position from, or 0
RECURSIVE FindFrom(_, _, _)
FindFrom(s, pat, from) ==
    IF from + Len(pat) - 1 > Len(s) THEN 0
    ELSE IF SubSeq(s, from, from + Len(pat) - 1) = pat THEN from
    ELSE FindFrom(s, pat, from + 1)

\* pat in s
Contains(s, pat) == FindFrom(s, pat, 1) # 0

\* s.split(sep, maxsplit)
RECURSIVE Split(_, _, _)
Split(s, sep, maxsplit) ==
    LET at == FindFrom(s, sep, 1)
    IN  IF maxsplit = 0 \/ at = 0 THEN <<s>>
        ELSE <<Slice(s, 1, at - 1)>> \o
             Split(Slice(s, at + Len(sep), Len(s)), sep, maxsplit - 1)

\* re.findall(r"'([^']+)'", s)
RECURSIVE FindQuoted(_)
FindQuoted(s) ==
    LET open == FindFrom(s, <<"'">>, 1)
    IN  IF open = 0 THEN <<>>
        ELSE LET close == FindFrom(s, <<"'">>, open + 1)
             IN  IF close = 0 THEN <<>>
                 ELSE IF close = open + 1
                 THEN FindQuoted(Slice(s, close, Len(s)))
                 ELSE <<Slice(s, open + 1, close - 1)>> \o
                      FindQuoted(Slice(s, close + 1, Len(s)))

\* s.replace(c, "") for a character c
RECURSIVE RemoveAll(_, _)
RemoveAll(s, c) ==
    IF s = <<>> THEN s
    ELSE IF s[1] = c THEN RemoveAll(Tail(s), c)
    ELSE <<s[1]>> \o RemoveAll(Tail(s), c)

\* s.replace(pat, by)
RECURSIVE Replace(_, _, _)
Replace(s, pat, by) ==
    LET at == FindFrom(s, pat, 1)
    IN  IF at = 0 THEN s
        ELSE Slice(s, 1, at - 1) \o by \o Replace(Slice(s, at + Len(pat), Len(s)), pat, by)

Quoted(name) == <<"'">> \o name \o <<"'">>

\* the units of 1e-11 in one hundredth
TinyPerCent == 1000 * 1000 * 1000

Num(h, t) == [h |-> h + (t \div TinyPerCent), t |-> t % TinyPerCent]

NumZero == [h |-> 0, t |-> 0]

NumAdd(x, y) == Num(x.h + y.h, x.t + y.t)

NumSub(x, y) == Num(x.h - y.h, x.t - y.t)

NumLess(x, y) == x.h < y.h \/ (x.h = y.h /\ x.t < y.t)

NumAbs(x) == IF NumLess(x, NumZero) THEN NumSub(NumZero, x) ELSE x

\* digits padded with zeros on the right to n places, or cut to n places
PadRight(digits, n) == [k \in 1..n |-> IF k <= Len(digits) THEN digits[k] ELSE "0"]

\* float(s): [ok, v]; ok is FALSE when float raises ValueError
FloatOf(s) ==
    LET t == Strip(s)
        neg == Len(t) > 0 /\ t[1] = "-"
        u == Unsigned(t)
        dot == FindFrom(u, <<".">>, 1)
        whole == IF dot = 0 THEN u ELSE Slice(u, 1, dot - 1)
        frac == PadRight(IF dot = 0 THEN <<>> ELSE Slice(u, dot + 1, Len(u)), 11)
        mag == Num(100 * DigitsVal(whole) + DigitsVal(SubSeq(frac, 1, 2)),
                   DigitsVal(SubSeq(frac, 3, 11)))
    IN  IF PyFloatOk(s)
        THEN [ok |-> TRUE, v |-> IF neg THEN NumSub(NumZero, mag) ELSE mag]
        ELSE [ok |-> FALSE, v |-> NumZero]

\* pd.isna(value) or str(value).strip() == ""
NullOrEmpty(c) == IsNa(c) \/ Strip(PyStr(c)) = <<>>

\* df.columns.str.lower()
LowerColumns(d) == {StrLower(c) : c \in DOMAIN d}

FLoc(i, value, tag, text, arg) ==
    [row |-> i, value |-> value, rule |-> tag, reason |-> <<text, arg>>]

TagFormula(column_name) == column_name \o <<"_", "F", "o", "r", "m", "u", "l", "a">>

TagDataType(column_name) == column_name \o <<"_", "D", "a", "t", "a", "T", "y", "p", "e">>

TagColumnNotFound == <<"C", "o", "l", "u", "m", "n", "N", "o", "t", "F", "o", "u", "n", "d">>

TagInvalidFormula == <<"I", "n", "v", "a", "l", "i", "d", "F", "o", "r", "m", "u", "l", "a">>

TagInvalidOperand == <<"I", "n", "v", "a", "l", "i", "d", "O", "p", "e", "r", "a", "n", "d">>

TagFormulaEvaluation == <<"F", "o", "r", "m", "u", "l", "a", "E", "v", "a", "l", "u", "a", "t", "i", "o", "n">>

\* the row number of the locations that belong to no row (lines 338, 345,
\* 352, 413, 424, 464 and 469)
NoRowNumber == 0

\* lines 356-363: the numeric check of one column; locs is error_locations
RECURSIVE NumericCheck(_, _, _, _, _)
NumericCheck(locs, i, column, column_name, col) ==
    IF i > Len(column) THEN locs
    ELSE LET value == column[i]
             next == IF NullOrEmpty(value)
                     THEN Append(locs, FLoc(i, NullStr, TagFormula(column_name),
                                            "Value is null or empty in column ", col))
                     ELSE IF ~FloatOf(PyStr(value)).ok
                     THEN Append(locs, FLoc(i, PyStr(value), TagDataType(column_name),
                                            "Invalid numeric value in column ", col))
                     ELSE locs
         IN  NumericCheck(next, i + 1, column, column_name, col)

\* lines 355-363: for col in referenced_columns + [column_name]; a column whose
\* lower-cased name is not a label of the frame raises KeyError
RECURSIVE NumericCheckAll(_, _, _, _, _)
NumericCheckAll(st, k, cols, d, column_name) ==
    IF st.raised \/ k > Len(cols) THEN st
    ELSE IF cols[k] \notin DOMAIN d THEN [st EXCEPT !.raised = TRUE]
    ELSE NumericCheckAll([st EXCEPT !.locs = NumericCheck(@, 1, d[cols[k]], column_name, cols[k])],
                         k + 1, cols, d, column_name)

\* the tokens of an expression, separated by blanks
Tokens(expr) == LET parts == Split(expr, <<" ">>, -1)
                IN  SelectSeq(parts, LAMBDA p : p # <<>>)

\* the value of an operand token: a number or a name bound in local_dict
OperandValue(tok, local_dict) ==
    IF tok \in DOMAIN local_dict THEN [ok |-> TRUE, v |-> local_dict[tok]]
    ELSE IF AllIn(tok, Digit \cup {"."}) THEN FloatOf(tok)
    ELSE [ok |-> FALSE, v |-> NumZero]     \* NameError or SyntaxError

\* eval(expr, {"__builtins__": {}}, local_dict) for operands joined by + and -
RECURSIVE EvalFrom(_, _, _, _)
EvalFrom(acc, k, toks, local_dict) ==
    IF k > Len(toks) THEN [ok |-> TRUE, v |-> acc]
    ELSE IF k + 1 > Len(toks) \/ toks[k] \notin {<<"+">>, <<"-">>} THEN [ok |-> FALSE, v |-> NumZero]
    ELSE LET x == OperandValue(toks[k + 1], local_dict)
         IN  IF ~x.ok THEN [ok |-> FALSE, v |-> NumZero]
             ELSE EvalFrom(IF toks[k] = <<"+">> THEN NumAdd(acc, x.v) ELSE NumSub(acc, x.v),
                           k + 2, toks, local_dict)

Eval(expr, local_dict) ==
    LET toks == Tokens(expr)
    IN  IF toks = <<>> THEN [ok |-> FALSE, v |-> NumZero]
        ELSE LET x == OperandValue(toks[1], local_dict)
             IN  IF ~x.ok THEN [ok |-> FALSE, v |-> NumZero]
                 ELSE EvalFrom(x.v, 2, toks, local_dict)

\* 1e-10
Tolerance == Num(0, 10)

\* line 401: abs(actual_num - expected_num) > 1e-10
BeyondTolerance(actual_num, expected_num) ==
    NumLess(Tolerance, NumAbs(NumSub(actual_num, expected_num)))

\* a slip of RowWithErrors: the row is skipped and valid is left as it was
RowWithErrorsSkipped(st) == st

\* lines 368-371: a row that the numeric check has reported: valid = False; continue
RowWithErrors(st) == [st EXCEPT !.valid = FALSE]

\* lines 366-406: the loop over the rows; st = [valid, locs]
RECURSIVE ArithmeticRows(_, _, _, _, _, _)
ArithmeticRows(st, i, d, column_name, right_side, referenced_columns) ==
    IF i > RowCount(d) THEN st
    ELSE
    LET row_errors == \E j \in 1..Len(st.locs) : st.locs[j].row = i
        names == {referenced_columns[k] : k \in 1..Len(referenced_columns)}
        local_dict == [col \in names |-> FloatOf(PyStr(d[col][i])).v]
        expr == Replace(Replace(RemoveAll(right_side, "'"), <<" ", "A", "N", "D", " ">>, <<" ", "a", "n", "d", " ">>),
                        <<" ", "O", "R", " ">>, <<" ", "o", "r", " ">>)
        expected == Eval(expr, local_dict)
        actual == d[column_name][i]
        actual_value == Strip(PyStr(actual))
        next ==
            IF row_errors THEN RowWithErrors(st)
            ELSE IF ~expected.ok
            THEN [valid |-> FALSE,
                  locs |-> Append(st.locs, FLoc(i, <<>>, TagFormulaEvaluation,
                                                "Error evaluating formula for row", <<>>))]
            ELSE IF BeyondTolerance(FloatOf(actual_value).v, expected.v)
            THEN [valid |-> FALSE,
                  locs |-> Append(st.locs, FLoc(i, actual_value, TagFormula(column_name),
                                                "Data Error: ", right_side))]
            ELSE st
    IN  ArithmeticRows(next, i + 1, d, column_name, right_side, referenced_columns)

ComparisonOperators == {<<"=">>, <<">">>, <<"<">>, <<">", "=">>, <<"<", "=">>}

\* operator_map[operator_str](x, y)
op_func(operator_str, x, y) ==
    CASE operator_str = <<"=">> -> x = y
      [] operator_str = <<">">> -> NumLess(y, x)
      [] operator_str = <<"<">> -> NumLess(x, y)
      [] operator_str = <<">", "=">> -> ~NumLess(x, y)
      [] operator_str = <<"<", "=">> -> ~NumLess(y, x)

\* lines 426-446: the loop over the rows of a column-to-column comparison
RECURSIVE CompareColumns(_, _, _, _, _, _)
CompareColumns(st, i, d, column_name, second_column, operator_str) ==
    IF i > RowCount(d) THEN st
    ELSE
    LET left_value == d[column_name][i]
        right_value == d[second_column][i]
        left_num == FloatOf(PyStr(left_value))
        right_num == FloatOf(PyStr(right_value))
        fail(loc) == [valid |-> FALSE, locs |-> Append(st.locs, loc)]
        next ==
            IF NullOrEmpty(left_value)
            THEN fail(FLoc(i, NullStr, TagFormula(column_name),
                           "Value is null in column ", column_name))
            ELSE IF NullOrEmpty(right_value)
            THEN fail(FLoc(i, PyStr(left_value), TagFormula(column_name),
                           "Value is null in column ", second_column))
            ELSE IF ~left_num.ok \/ ~right_num.ok
            THEN fail(FLoc(i, PyStr(left_value), TagDataType(column_name),
                           "Invalid numeric value in column ", column_name))
            ELSE IF ~op_func(operator_str, left_num.v, right_num.v)
            THEN fail(FLoc(i, PyStr(left_value), TagFormula(column_name),
                           "Failed comparison: ", operator_str))
            ELSE st
    IN  CompareColumns(next, i + 1, d, column_name, second_column, operator_str)

\* lines 450-462: the loop over the cells of a column-to-constant comparison
RECURSIVE CompareConstant(_, _, _, _, _, _)
CompareConstant(st, i, column, column_name, operand_value, operator_str) ==
    IF i > Len(column) THEN st
    ELSE
    LET value == column[i]
        value_num == FloatOf(PyStr(value))
        fail(loc) == [valid |-> FALSE, locs |-> Append(st.locs, loc)]
        next ==
            IF NullOrEmpty(value)
            THEN fail(FLoc(i, NullStr, TagFormula(column_name), "Value is null", <<>>))
            ELSE IF ~value_num.ok
            THEN fail(FLoc(i, PyStr(value), TagDataType(column_name),
                           "Invalid numeric value in column ", column_name))
            ELSE IF ~op_func(operator_str, value_num.v, operand_value)
            THEN fail(FLoc(i, PyStr(value), TagFormula(column_name),
                           "Failed comparison: ", operator_str))
            ELSE st
    IN  CompareConstant(next, i + 1, column, column_name, operand_value, operator_str)

\* return False, [(0, "", tag, message)]
Rejected(tag, text, arg) ==
    [raised |-> FALSE, valid |-> FALSE, locs |-> <<FLoc(NoRowNumber, <<>>, tag, text, arg)>>]

\* a slip of Caught: the exception leaves the function
CaughtReraised(error_locations, column_name) ==
    [raised |-> TRUE, valid |-> FALSE, locs |-> <<>>]

\* line 469: except Exception: return False, error_locations + [(0, "", ...)]
Caught(error_locations, column_name) ==
    [raised |-> FALSE, valid |-> FALSE,
     locs |-> Append(error_locations,
                     FLoc(NoRowNumber, <<>>, TagFormulaEvaluation,
                          "Error evaluating formula for column ", column_name))]

FormulaReturn(st) == [raised |-> FALSE, valid |-> st.valid, locs |-> st.locs]

\* lines 342-408
ArithmeticBranch(d, column_name, formula) ==
    LET formula_parts == Split(Strip(formula), <<" ", "=", " ">>, 1)
        right_side == formula_parts[2]
        found == FindQuoted(right_side)
        referenced_columns == [k \in 1..Len(found) |-> StrLower(Strip(found[k]))]
        checked == NumericCheckAll([raised |-> FALSE, locs |-> <<>>], 1,
                                   referenced_columns \o <<column_name>>, d, column_name)
    IN  IF Len(formula_parts) # 2 \/ formula_parts[1] # Quoted(column_name)
        THEN Rejected(TagInvalidFormula,
                      "Arithmetic formula must be 'column_name = expression'", <<>>)
        ELSE IF \E k \in 1..Len(referenced_columns) :
                   referenced_columns[k] \notin LowerColumns(d)
        THEN Rejected(TagColumnNotFound, "Referenced column not found in data", <<>>)
        ELSE IF checked.raised
        THEN Caught(checked.locs, column_name)
        ELSE FormulaReturn(ArithmeticRows([valid |-> TRUE, locs |-> checked.locs], 1, d,
                                          column_name, right_side, referenced_columns))

\* lines 409-466
ComparisonBranch(d, column_name, formula) ==
    LET parts == Split(Strip(formula), <<" ">>, 3)
        operator_str == parts[2]
        operand == parts[3]
        second_column == StrLower(Strip(Slice(operand, 2, Len(operand) - 1)))
        operand_value == FloatOf(operand)
        start == [valid |-> TRUE, locs |-> <<>>]
    IN  IF \/ Len(parts) # 3
           \/ parts[1] # Quoted(column_name)
           \/ parts[2] \notin ComparisonOperators
        THEN Rejected(TagInvalidFormula,
                      "Comparison formula must be 'column_name <operator> operand'", <<>>)
        ELSE IF StartsWith(operand, <<"'">>) /\ operand[Len(operand)] = "'"
        THEN IF second_column \notin LowerColumns(d)
             THEN Rejected(TagColumnNotFound, "Second column not found in data", second_column)
             ELSE IF RowCount(d) > 0 /\ (column_name \notin DOMAIN d \/ second_column \notin DOMAIN d)
             THEN Caught(<<>>, column_name)   \* KeyError in the first row
             ELSE FormulaReturn(CompareColumns(start, 1, d, column_name, second_column,
                                               operator_str))
        ELSE IF ~operand_value.ok
        THEN Rejected(TagInvalidOperand, "Invalid operand for comparison: ", operand)
        ELSE IF column_name \notin DOMAIN d
        THEN Caught(<<>>, column_name)        \* KeyError
        ELSE FormulaReturn(CompareConstant(start, 1, d[column_name], column_name,
                                           operand_value.v, operator_str))

\* a slip of evaluate_column_rule: a formula of the comparison shape is given
\* to the comparison branch before the test for ' = '
evaluate_column_rule_shape_first(d, column_name_arg, formula) ==
    LET column_name == StrLower(Strip(column_name_arg))
        parts == Split(Strip(formula), <<" ">>, 3)
    IN  IF column_name \notin LowerColumns(d)
        THEN Rejected(TagColumnNotFound, "Column not found in data", column_name)
        ELSE IF Len(parts) = 3 /\ parts[2] \in ComparisonOperators
        THEN ComparisonBranch(d, column_name, formula)
        ELSE IF Contains(formula, <<" ", "=", " ">>)
        THEN ArithmeticBranch(d, column_name, formula)
        ELSE ComparisonBranch(d, column_name, formula)

\* lines 329-469
evaluate_column_rule(d, column_name_arg, formula) ==
    LET column_name == StrLower(Strip(column_name_arg))
    IN  IF column_name \notin LowerColumns(d)
        THEN Rejected(TagColumnNotFound, "Column not found in data", column_name)
        ELSE IF Contains(formula, <<" ", "=", " ">>)
        THEN ArithmeticBranch(d, column_name, formula)
        ELSE ComparisonBranch(d, column_name, formula)

(***************************************************************************)
(* The formula evaluator as a state machine: a caller holds a frame and    *)
(* calls evaluate_column_rule with a column name and a formula.            *)
(***************************************************************************)
ColA == <<"a">>

ColB == <<"b">>

ColScore == <<"S", "c", "o", "r", "e">>

FormulaPool == {Null, StrCell(<<"a", "b", "c">>), StrCell(<<"1", ".", "5">>), IntCell(49), IntCell(50)}

OperandPool == {Null, StrCell(<<"a", "b", "c">>), IntCell(49)}

\* frames of a target column, labelled a or Score, and an operand column b
FormulaFrames ==
    {(target :> ct) @@ (ColB :> cb) :
        target \in {ColA, ColScore},
        ct \in ColumnsOver(FormulaPool, MaxRows), cb \in ColumnsOver(OperandPool, MaxRows)}

\* the frames whose columns have one length
IsFrame(d) == \A c1, c2 \in DOMAIN d : Len(d[c1]) = Len(d[c2])

Formulas ==
    {<<"'", "a", "'", " ", "=", " ", "'", "b", "'", " ", "+", " ", "1">>, <<"'", "a", "'", " ", "=", " ", "5", "0">>, <<"'", "a", "'", " ", "=", " ", "'", "b", "'", " ", "+", " ", "x">>, <<"'", "a", "'", " ", "=", " ", "'", "z", "z", "'", " ", "+", " ", "1">>,
     <<"'", "a", "'", " ", ">", "=", " ", "5", "0">>, <<"'", "a", "'", " ", ">", " ", "'", "b", "'">>, <<"'", "a", "'", " ", ">", "=", " ", "x">>, <<"'", "a", "'", " ", ">", " ", "'", "z", "z", "'">>, <<"'", "b", "'", " ", ">", " ", "1">>,
     <<"'", "a", "'", " ", "=", " ", "'", "b", "'">>,
     <<"a", " ", ">", " ", "1">>, <<"'", "s", "c", "o", "r", "e", "'", " ", "=", " ", "'", "b", "'", " ", "+", " ", "1">>, <<"'", "s", "c", "o", "r", "e", "'", " ", ">", "=", " ", "5", "0">>, <<"'", "s", "c", "o", "r", "e", "'", " ", "=", " ", "5", "0">>}

\* the spec's comparison scenario: column score holding 49, 50, 51
ScoreScenario == (<<"s", "c", "o", "r", "e">> :> <<IntCell(49), IntCell(50), IntCell(51)>>)

\* one-row frames whose target differs from the operand column by less than,
\* exactly, and more than 1e-10
ToleranceFrames ==
    {(ColA :> <<StrCell(x)>>) @@ (ColB :> <<StrCell(<<"0", ".", "0", "0", "0", "0", "0", "0", "0", "0", "0", "1">>)>>) :
        x \in {<<"0", ".", "0", "0", "0", "0", "0", "0", "0", "0", "0", "1">>, <<"0", ".", "0", "0", "0", "0", "0", "0", "0", "0", "0", "1", "5">>,
               <<"0", ".", "0", "0", "0", "0", "0", "0", "0", "0", "0", "2">>, <<"0", ".", "0", "0", "0", "0", "0", "0", "0", "0", "0", "3">>}}

FormulaColumnArgs == {ColA, <<" ", "A", " ">>, <<"z", "z">>, ColScore}

InitFormula ==
    /\ df \in {d \in FormulaFrames : IsFrame(d)} \cup {ScoreScenario} \cup ToleranceFrames
    /\ catalog = EngineCatalog
    /\ files = NoFiles
    /\ stack = NoStack
    /\ pc = "idle"
    /\ call = NoCall
    /\ ret = NoRet
    /\ ret2 = NoRet

\* a call of models/validation.py evaluate_column_rule
EvaluateColumnRule ==
    /\ pc = "idle"
    /\ \E column_name \in FormulaColumnArgs, formula \in Formulas :
          LET r == evaluate_column_rule(df, column_name, formula)
          IN  /\ call' = [NoCall EXCEPT !.op = "evaluate", !.col = column_name,
                                        !.rule = formula]
              /\ ret' = [NoRet EXCEPT !.raised = r.raised, !.valid = r.valid,
                                      !.locs = r.locs, !.count = Len(r.locs)]
    /\ pc' = "evaluated"
    /\ UNCHANGED <<df, catalog, files, stack, ret2>>

NextFormula == EvaluateColumnRule

SpecFormula == InitFormula /\ [][NextFormula]_vars

\* C3: every location returned by validate or by evaluate_column_rule has a
\* row_number in [1, row_count] of the frame it was evaluated against,
\* including the locations returned for an unknown column, a malformed
\* formula, an invalid operand and a caught exception.
C3_RowsInRange ==
    (pc \in {"validated", "revalidated", "evaluated"} /\ ~ret.raised) =>
        \A j \in 1..Len(ret.locs) : ret.locs[j].row \in 1..RowCount(df)

\* C3 for the locations that belong to a row (holds of the code): a location
\* of validate, and a location of evaluate_column_rule other than the
\* rejections and the caught exception, is within [1, row_count]
C3_RowLocationsInRange ==
    (pc \in {"validated", "revalidated", "evaluated"} /\ ~ret.raised) =>
        \A j \in 1..Len(ret.locs) :
            \/ ret.locs[j].row \in 1..RowCount(df)
            \/ /\ pc = "evaluated"
               /\ ~ret.valid
               /\ j = Len(ret.locs)
               /\ ret.locs[j].row = 0
               /\ ret.locs[j].rule \in {TagColumnNotFound, TagInvalidFormula,
                                        TagInvalidOperand, TagFormulaEvaluation}

(***************************************************************************)
(* Properties of evaluate_column_rule.                                     *)
(***************************************************************************)
Evaluated == pc = "evaluated" /\ ~ret.raised

\* the call took the arithmetic branch (line 340)
IsArithmeticCall == Contains(call.rule, <<" ", "=", " ">>)

\* C11: evaluate_column_rule returns valid = true only if the returned list
\* of error locations is empty; on every return path a non-empty list is
\* paired with valid = false.
C11_ValidOnlyIfNoLocations == Evaluated => (ret.valid => ret.locs = <<>>)

\* an arithmetic call returned locations that only the numeric check
\* produced (the row loop skipped every reported row), with valid = false
C11_Witness ==
    /\ Evaluated
    /\ IsArithmeticCall
    /\ ret.locs # <<>>
    /\ \A j \in 1..Len(ret.locs) :
          /\ ret.locs[j].row >= 1
          /\ ret.locs[j].reason[1] \in {"Value is null or empty in column ",
                                        "Invalid numeric value in column "}
    /\ ~ret.valid

\* column_name as the evaluator uses it (line 334)
CallColumn == StrLower(Strip(call.col))

\* the column of the frame that the existence test of lines 337, 351 and 423
\* accepts for a lower-cased name
ColumnNamed(d, name) == d[CHOOSE c \in DOMAIN d : StrLower(c) = name]

CallParts == Split(Strip(call.rule), <<" ">>, 3)

CallOperand == CallParts[3]

OperandIsColumn == StartsWith(CallOperand, <<"'">>) /\ CallOperand[Len(CallOperand)] = "'"

CallSecondColumn == StrLower(Strip(Slice(CallOperand, 2, Len(CallOperand) - 1)))

\* the call is a comparison '<col>' <op> <operand> on a column of the frame,
\* with the operand a numeric constant or a quoted column of the frame
IsComparisonCall ==
    /\ pc = "evaluated"
    /\ ~IsArithmeticCall
    /\ CallColumn \in LowerColumns(df)
    /\ Len(CallParts) = 3
    /\ CallParts[1] = Quoted(CallColumn)
    /\ CallParts[2] \in ComparisonOperators
    /\ IF OperandIsColumn THEN CallSecondColumn \in LowerColumns(df)
                          ELSE FloatOf(CallOperand).ok

\* row i of a comparison call has a null, empty or non-numeric value, or its
\* numeric operands do not satisfy the operator
ComparisonRowFails(i) ==
    LET left == ColumnNamed(df, CallColumn)[i]
        leftBad == NullOrEmpty(left) \/ ~FloatOf(PyStr(left)).ok
    IN  IF OperandIsColumn
        THEN LET right == ColumnNamed(df, CallSecondColumn)[i]
             IN  \/ leftBad
                 \/ NullOrEmpty(right) \/ ~FloatOf(PyStr(right)).ok
                 \/ ~op_func(CallParts[2], FloatOf(PyStr(left)).v, FloatOf(PyStr(right)).v)
        ELSE \/ leftBad
             \/ ~op_func(CallParts[2], FloatOf(PyStr(left)).v, FloatOf(CallOperand).v)

RowLocations(i) == {j \in 1..Len(ret.locs) : ret.locs[j].row = i}

ComparisonRowsCompared ==
    /\ ~ret.raised
    /\ \A i \in 1..RowCount(df) :
          Cardinality(RowLocations(i)) = IF ComparisonRowFails(i) THEN 1 ELSE 0

\* C12: for a comparison formula '<col>' <op> <operand>, op in {=, >, <, >=,
\* <=}, operand a numeric constant or a quoted column, every row is compared
\* on its own: a row yields exactly one error iff it holds a null, empty or
\* non-numeric value or its numeric operands fail the comparison.
C12_EveryRowCompared == IsComparisonCall => ComparisonRowsCompared

\* the labels of the frame are the lower-cased names the evaluator indexes with
ExactLabels ==
    /\ CallColumn \in DOMAIN df
    /\ OperandIsColumn => CallSecondColumn \in DOMAIN df

\* C12 on frames whose column labels are lower-case (holds of the code),
\* with the scenario 'score' >= 50 on 49, 50, 51: one error, row 1, value 49
C12_EveryRowComparedExactLabels ==
    /\ (IsComparisonCall /\ ExactLabels) => ComparisonRowsCompared
    /\ (IsComparisonCall /\ df = ScoreScenario /\ call.rule = <<"'", "s", "c", "o", "r", "e", "'", " ", ">", "=", " ", "5", "0">>) =>
          /\ Len(ret.locs) = 1
          /\ ret.locs[1].row = 1
          /\ ret.locs[1].value = <<"4", "9">>

CallSides == Split(Strip(call.rule), <<" ", "=", " ">>, 1)

CallRightSide == CallSides[2]

CallReferenced ==
    LET found == FindQuoted(CallRightSide)
    IN  {StrLower(Strip(found[k])) : k \in 1..Len(found)}

\* the call is an arithmetic formula '<col>' = <expression> on a column of
\* the frame whose expression names columns of the frame only
IsArithmeticFormulaCall ==
    /\ pc = "evaluated"
    /\ IsArithmeticCall
    /\ CallColumn \in LowerColumns(df)
    /\ Len(CallSides) = 2
    /\ CallSides[1] = Quoted(CallColumn)
    /\ CallReferenced \subseteq LowerColumns(df)

\* the target and every referenced column hold a number in row i
RowFullyNumeric(i) ==
    \A col \in CallReferenced \cup {CallColumn} :
        LET value == ColumnNamed(df, col)[i]
        IN  ~NullOrEmpty(value) /\ FloatOf(PyStr(value)).ok

\* the value of the expression in row i
RowExpected(i) ==
    Eval(RemoveAll(CallRightSide, "'"),
         [col \in CallReferenced |-> FloatOf(PyStr(ColumnNamed(df, col)[i])).v])

RowActual(i) == FloatOf(PyStr(ColumnNamed(df, CallColumn)[i])).v

\* |actual - expected| > 1e-10
ExceedsTolerance(actual, expected) ==
    LET difference == NumSub(actual, expected)
    IN  NumLess(Tolerance, difference) \/ NumLess(difference, NumSub(NumZero, Tolerance))

DataErrors(i) ==
    {j \in 1..Len(ret.locs) : ret.locs[j].row = i /\ ret.locs[j].reason[1] = "Data Error: "}

ToleranceDecides ==
    /\ ~ret.raised
    /\ \A i \in 1..RowCount(df) :
          (RowFullyNumeric(i) /\ RowExpected(i).ok) =>
              Cardinality(DataErrors(i)) =
                  IF ExceedsTolerance(RowActual(i), RowExpected(i).v) THEN 1 ELSE 0

\* C13: in an arithmetic formula '<col>' = <expression>, a fully numeric row
\* is reported as a "Data Error" mismatch if and only if
\* |actual - expected| > 1e-10: no error at or below the tolerance, exactly
\* one error above it.
C13_MismatchIffBeyondTolerance == IsArithmeticFormulaCall => ToleranceDecides

\* C13 on frames whose column labels are lower-case (holds of the code)
C13_MismatchIffBeyondToleranceExactLabels ==
    (IsArithmeticFormulaCall /\ CallReferenced \cup {CallColumn} \subseteq DOMAIN df) =>
        ToleranceDecides

\* rows whose difference is exactly 1e-10 (no error) and above it (one error)
C13_AtTolerance ==
    /\ IsArithmeticFormulaCall
    /\ RowCount(df) = 1 /\ RowFullyNumeric(1) /\ RowExpected(1).ok
    /\ NumSub(RowActual(1), RowExpected(1).v) = Tolerance
    /\ ret.locs = <<>> /\ ret.valid

C13_AboveTolerance ==
    /\ IsArithmeticFormulaCall
    /\ RowCount(df) = 1 /\ RowFullyNumeric(1) /\ RowExpected(1).ok
    /\ NumSub(RowActual(1), RowExpected(1).v) = Num(0, 20)
    /\ Len(ret.locs) = 1 /\ ~ret.valid

(***************************************************************************)
(* Error handling of validate.                                             *)
(***************************************************************************)
ValidateReturnedOrRaised == pc \in {"validated", "revalidated"}

\* C14: validate never raises for a cell that merely fails a rule, for every
\* frame, column and rule name, a Date(<fmt>) rule without a catalog row or
\* without source_format included (the rule whose parameters are formula
\* text fails in json.loads before any cell is read and is left aside).
C14_NeverRaisesForFailingCell ==
    (ValidateReturnedOrRaised /\ call.rule # RFormula) => ~ret.raised

\* C14 for the rules that have a catalog row (holds of the code): the call
\* returns, a Date(<fmt>) rule without source_format included
C14_CataloguedRulesReturn ==
    (ValidateReturnedOrRaised /\ call.rule \in DOMAIN catalog \ {RFormula}) => ~ret.raised

\* a Date rule without source_format met a cell that is not a date, and the
\* call returned the cell as a location
C14_NoSourceFormatReturns ==
    /\ ValidateReturnedOrRaised
    /\ call.rule = RDateNoFormat
    /\ ~ret.raised
    /\ \E j \in 1..Len(ret.locs) : ret.locs[j].reason[1] = "Invalid date format (expected "

(***************************************************************************)
(* Error handling of evaluate_column_rule.                                 *)
(***************************************************************************)
\* the locations that report a formula evaluation error: every location but
\* the <col>_Formula findings of a row (null value, mismatch, failed
\* comparison)
ErrorReports == {j \in 1..Len(ret.locs) : ret.locs[j].rule # TagFormula(CallColumn)}

SpecErrorTags ==
    {TagColumnNotFound, TagInvalidFormula, TagFormulaEvaluation, TagDataType(CallColumn)}

ErrorsReportedWith(tags) ==
    /\ ~ret.raised
    /\ \A j \in ErrorReports : ret.locs[j].rule \in tags
    /\ ErrorReports # {} => ~ret.valid

\* C15 as stated: evaluate_column_rule never raises; an unknown column, a
\* malformed formula, a non-numeric operand and an evaluation exception are
\* returned as locations tagged ColumnNotFound, InvalidFormula,
\* FormulaEvaluation or <col>_DataType, with valid = false.
C15_ErrorsAreLocations == pc = "evaluated" => ErrorsReportedWith(SpecErrorTags)

\* C15 amended: the tag is one of ColumnNotFound, InvalidFormula,
\* InvalidOperand, FormulaEvaluation or <col>_DataType (a comparison whose
\* constant operand is not a number is tagged InvalidOperand); the call
\* never raises and valid = false.
C15_ErrorsAreLocationsWithInvalidOperand ==
    pc = "evaluated" => ErrorsReportedWith(SpecErrorTags \cup {TagInvalidOperand})

\* an exception inside the evaluator (the frame has no column labelled with
\* the lower-cased name) came back as a FormulaEvaluation location
C15_Witness ==
    /\ pc = "evaluated"
    /\ CallColumn \in LowerColumns(df) \ DOMAIN df
    /\ ~ret.raised /\ ~ret.valid
    /\ ret.locs # <<>>
    /\ ret.locs[Len(ret.locs)].rule = TagFormulaEvaluation
    /\ ret.locs[Len(ret.locs)].row = NoRowNumber

(***************************************************************************)
(* services/file_handler.py: FileHandler                                   *)
(*                                                                         *)
(* A sheet is a frame read with header=None: its columns are labelled by   *)
(* position and its rows are the raw grid.  Row indices are 0-based as in  *)
(* the source; row index i is position i + 1 of a column.                  *)
(***************************************************************************)
\* df.iloc[i].dropna(): the non-null cells of the row with index i
RowDropNa(d, i) == {c \in DOMAIN d : ~IsNa(d[c][i + 1])}

\* a slip of RowQualifies: the null cells are not dropped before the test
RowQualifiesNullsKept(d, i) ==
    DOMAIN d # {} /\ \A c \in DOMAIN d : d[c][i + 1].k = "str"

\* line 83: not row.empty and all(isinstance(x, str) for x in row if pd.notna(x))
RowQualifies(d, i) ==
    RowDropNa(d, i) # {} /\ \A c \in RowDropNa(d, i) : d[c][i + 1].k = "str"

\* line 87: not df.empty and len(df.columns) > 0
SheetNotEmpty(d) == RowCount(d) > 0 /\ DOMAIN d # {}

\* lines 81-87: for i in range(n) ... return i; after the loop the default
RECURSIVE HeaderScan(_, _, _)
HeaderScan(d, i, n) ==
    IF i >= n THEN (IF SheetNotEmpty(d) THEN 0 ELSE -1)
    ELSE IF RowQualifies(d, i) THEN i
    ELSE HeaderScan(d, i + 1, n)

\* lines 78-90
find_header_row(d, max_rows) == HeaderScan(d, 0, Min(RowCount(d), max_rows))

\* a file on disk is a text of characters or a workbook of named grids; a
\* path that is not in the file system cannot be opened
TextFile(content) == [kind |-> "text", content |-> content, sheets |-> <<>>]

WorkbookFile(sheets) == [kind |-> "workbook", content |-> <<>>, sheets |-> sheets]

Whitespace == {" ", "\n", "\t", "\r"}

\* not content.strip()
IsBlankText(content) == AllIn(content, Whitespace)

\* f.read(1024)
ReadLimit == 1024

\* nrows=5
SampleRows == 5

\* the rows pd.read_csv(engine='python', header=None) finds in a text: the
\* lines split at sep, the blank lines dropped
CsvRows(content, sep) ==
    LET lines == Split(content, <<"\n">>, -1)
        fields == [k \in 1..Len(lines) |-> Split(lines[k], <<sep>>, -1)]
    IN  SelectSeq(fields, LAMBDA row : Len(row) > 1 \/ ~IsBlankText(row[1]))

\* the number of non-null fields of a parsed row: an empty field is NaN
NonNullFields(row) == Cardinality({k \in 1..Len(row) : row[k] # <<>>})

\* lines 60-63: the sample parse of one candidate.  The width of the frame
\* is the width of the first row; a later row with more fields is a
\* ParserError, a text without rows an EmptyDataError.
SampleOf(rows) ==
    IF rows = <<>> \/ \E i \in 1..Len(rows) : Len(rows[i]) > Len(rows[1])
    THEN [ok |-> FALSE, column_count |-> 0, full |-> 0, rows |-> 1]
    ELSE [ok |-> TRUE, column_count |-> Len(rows[1]),
          full |-> Cardinality({i \in 1..Len(rows) : NonNullFields(rows[i]) = Len(rows[1])}),
          rows |-> Len(rows)]

\* nrows=5: the first rows of the file
FirstRows(all) == SubSeq(all, 1, Min(Len(all), SampleRows))

SampleParse(content, delim) == SampleOf(FirstRows(CsvRows(content, delim)))

\* line 56
Delimiters == <<",", ";", "|", "/", "\t", ":", "-">>

\* line 57: best_delimiter, max_columns, best_consistency = None, 0, 0; the
\* consistency is the fraction full / rows
NoBest == [found |-> FALSE, delimiter |-> ",", max_columns |-> 0, full |-> 0, rows |-> 1]

\* consistency > best_consistency
MoreConsistent(sample, best) == sample.full * best.rows > best.full * sample.rows

\* line 64
Improves(sample, best) ==
    /\ sample.column_count > 1
    /\ sample.column_count > best.max_columns
    /\ MoreConsistent(sample, best)

\* lines 64-67: the best candidate after the sample of delim
Better(sample, best, delim) ==
    IF sample.ok /\ Improves(sample, best)
    THEN [found |-> TRUE, delimiter |-> delim, max_columns |-> sample.column_count,
          full |-> sample.full, rows |-> sample.rows]
    ELSE best

\* lines 58-69: the loop over the candidates
RECURSIVE BruteForce(_, _, _)
BruteForce(best, k, content) ==
    IF k > Len(Delimiters) THEN best
    ELSE BruteForce(Better(SampleParse(content, Delimiters[k]), best, Delimiters[k]),
                    k + 1, content)

\* line 70: best_delimiter or ','
BestOrDefault(best) == IF best.found THEN best.delimiter ELSE ","

\* lines 52-70: the delimiter of the text read
DetectIn(content) ==
    IF IsBlankText(content) THEN "," ELSE BestOrDefault(BruteForce(NoBest, 1, content))

\* lines 48-75: the delimiter, one character
detect_delimiter(fs, file_path) ==
    IF file_path \notin DOMAIN fs \/ fs[file_path].kind # "text"
    THEN ","                                  \* open or decode failed: except, line 75
    ELSE DetectIn(Slice(fs[file_path].content, 1, Min(Len(fs[file_path].content), ReadLimit)))

\* str.endswith
EndsWith(s, p) == Len(s) >= Len(p) /\ SubSeq(s, Len(s) - Len(p) + 1, Len(s)) = p

\* an error on its way out of read_file: the message of the raise site and
\* whether the except clause of line 43 has re-raised it as
\* ValueError("Error reading file: <message>")
ReadError(cause, wrapped) ==
    [raised |-> TRUE, cause |-> cause, wrapped |-> wrapped, sheets |-> <<>>]

ReadOk(sheets) == [raised |-> FALSE, cause |-> "", wrapped |-> FALSE, sheets |-> sheets]

\* lines 43-45: except Exception as e: raise ValueError(f"Error reading file: {str(e)}")
Wrap(cause) == ReadError(cause, TRUE)

\* the outcomes of csv.Sniffer().sniff(content[:1024]): it raises, or it
\* names a character of the sample as the delimiter
SniffOutcomes(content) ==
    LET sample == Slice(content, 1, Min(Len(content), ReadLimit))
    IN  {[ok |-> FALSE, delimiter |-> ","]} \cup
        {[ok |-> TRUE, delimiter |-> sample[k]] : k \in {j \in 1..Len(sample) : sample[j] \notin {"\n", "\r"}}}

\* the cells of a parsed column: integers when every non-null field is an
\* integer, strings otherwise; an empty field is NaN
ParsedColumn(fields) ==
    LET ints == /\ \E k \in 1..Len(fields) : fields[k] # <<>>
                /\ \A k \in 1..Len(fields) : fields[k] # <<>> => IntMatch(fields[k])
    IN  [k \in 1..Len(fields) |->
            IF fields[k] = <<>> THEN Null
            ELSE IF ints
            THEN IntCell(IF fields[k][1] = "-" THEN 0 - DigitsVal(Tail(fields[k]))
                                               ELSE DigitsVal(fields[k]))
            ELSE StrCell(fields[k])]

\* lines 36-37: pd.read_csv(header=None, sep=sep, engine='python') with the
\* columns relabelled str(col); rows is not empty and no row is wider than
\* the first
CsvFrame(rows) ==
    [label \in {NatStr(k - 1) : k \in 1..Len(rows[1])} |->
        LET k == CHOOSE j \in 1..Len(rows[1]) : NatStr(j - 1) = label
        IN  ParsedColumn([i \in 1..Len(rows) |->
                             IF k <= Len(rows[i]) THEN rows[i][k] ELSE <<>>])]

ExcelSuffixes == {<<".", "x", "l", "s", "x">>, <<".", "x", "l", "s">>}

TextSuffixes == {<<".", "t", "x", "t">>, <<".", "c", "s", "v">>, <<".", "d", "a", "t">>}

\* lines 23-39: a delimited text
\* lines 29-35: the sniffed delimiter, or on a csv.Error the brute force
Separator(fs, file_path, sniffed) ==
    IF sniffed.ok THEN sniffed.delimiter ELSE detect_delimiter(fs, file_path)

\* lines 36-39: the rows as one sheet, or the ParserError of pandas
SheetOrError(rows) ==
    IF rows = <<>> \/ \E i \in 1..Len(rows) : Len(rows[i]) > Len(rows[1])
    THEN Wrap("Error tokenizing data")
    ELSE ReadOk(<<"S", "h", "e", "e", "t", "1">> :> CsvFrame(rows))

ReadDelimited(fs, file_path, sniffed) ==
    IF file_path \notin DOMAIN fs
    THEN Wrap("No such file or directory")
    ELSE IF IsBlankText(fs[file_path].content)
    THEN Wrap("File is empty.")                 \* line 28, caught at line 43
    ELSE SheetOrError(CsvRows(fs[file_path].content, Separator(fs, file_path, sniffed)))

\* lines 17-22: a workbook; every sheet is read with header=None, so every
\* row of its grid is a row of the frame
ReadExcel(fs, file_path) ==
    IF file_path \notin DOMAIN fs
    THEN Wrap("No such file or directory")
    ELSE IF fs[file_path].kind # "workbook"
    THEN Wrap("File is not a zip file")
    ELSE ReadOk(fs[file_path].sheets)

\* lines 13-45
read_file(fs, file_path, sniffed) ==
    IF \E suffix \in ExcelSuffixes : EndsWith(file_path, suffix)
    THEN ReadExcel(fs, file_path)
    ELSE IF \E suffix \in TextSuffixes : EndsWith(file_path, suffix)
    THEN ReadDelimited(fs, file_path, sniffed)
    ELSE Wrap("Unsupported file type.")         \* line 42, caught at line 43

(***************************************************************************)
(* The file handler as a state machine: a caller holds a sheet and asks    *)
(* for its header row, or names a path of the file system and asks for the *)
(* delimiter or for the sheets of the file.                                *)
(***************************************************************************)
Label0 == <<"0">>

Label1 == <<"1">>

SheetCells == {Null, StrCell(<<"a">>), IntCell(1)}

\* the sheets of two columns and at most MaxRows rows, and the sheet without
\* columns
SheetPool ==
    {d \in {(Label0 :> c0) @@ (Label1 :> c1) :
               c0 \in ColumnsOver(SheetCells, MaxRows), c1 \in ColumnsOver(SheetCells, MaxRows)} :
        IsFrame(d)}
    \cup {<<>>}

MaxRowsChoices == {0, 1, 2, 10}

\* lines joined by newlines
RECURSIVE JoinLines(_)
JoinLines(lines) ==
    IF lines = <<>> THEN <<>>
    ELSE IF Len(lines) = 1 THEN lines[1]
    ELSE lines[1] \o <<"\n">> \o JoinLines(Tail(lines))

LinePool ==
    {<<"a">>, <<"a", ",", "b">>, <<"a", ";", "b">>, <<"a", ";", "b", ";", "c">>, <<"a", ";", ";", "c">>, <<"a", ",", "b", ";", "c", ";", "d">>, <<"a", ",", ";", "c", ";", "d">>, <<"a", ",", "b", ",", "c", ";", "d">>}

\* the test's file: three rows of three fields separated by semicolons
TestDelimitedText == JoinLines(<<<<"N", "a", "m", "e", ";", "A", "g", "e", ";", "C", "i", "t", "y">>, <<"J", "o", "h", "n", ";", "2", "5", ";", "N", "Y", "C">>, <<"J", "a", "n", "e", ";", "3", "0", ";", "L", "A">>>>)

\* six rows, the sixth wider than the first: it lies beyond the sample
LongText == JoinLines(<<<<"a", ";", "b">>, <<"a", ";", "b">>, <<"a", ";", "b">>, <<"a", ";", "b">>, <<"a", ";", "b">>, <<"a", ";", "b", ";", "c">>>>)

TextPool ==
    {JoinLines(lines) : lines \in UNION {[1..k -> LinePool] : k \in 1..MaxRows}}
    \cup {<<>>, <<" ", "\n">>, TestDelimitedText, LongText, TestDelimitedText \o <<"\n">>}

PathCsv == <<"d", "a", "t", "a", ".", "c", "s", "v">>

PathPdf == <<"d", "a", "t", "a", ".", "p", "d", "f">>

PathXlsx == <<"d", "a", "t", "a", ".", "x", "l", "s", "x">>

PathPool == {PathCsv, PathPdf, PathXlsx}

Col1 == <<"C", "o", "l", "1">>

Col2 == <<"C", "o", "l", "2">>

SheetName == <<"S", "h", "e", "e", "t", "1">>

\* df.to_excel(path, index=False) of a frame with the columns Col1 and Col2:
\* one sheet named Sheet1 whose first row holds the labels
to_excel(d) ==
    SheetName :> ((Label0 :> <<StrCell(Col1)>> \o d[Col1]) @@
                  (Label1 :> <<StrCell(Col2)>> \o d[Col2]))

\* the frame of the test: Col1 = 1, 2, 3 and Col2 = A, B, C
TestWorkbookFrame ==
    (Col1 :> <<IntCell(1), IntCell(2), IntCell(3)>>) @@
    (Col2 :> <<StrCell(<<"A">>), StrCell(<<"B">>), StrCell(<<"C">>)>>)

WorkbookFrames ==
    {d \in {(Col1 :> c1) @@ (Col2 :> c2) :
               c1 \in ColumnsOver({IntCell(1), IntCell(2)}, MaxRows),
               c2 \in ColumnsOver({StrCell(<<"A">>)}, MaxRows)} : IsFrame(d)}
    \cup {TestWorkbookFrame}

\* the file systems of the model: one file, a text (under the name of a csv,
\* of a pdf, or of a workbook)
FilePool ==
    {PathCsv :> TextFile(content) : content \in TextPool}
    \cup {PathPdf :> TextFile(<<"a", ",", "b">>), PathXlsx :> TextFile(<<"a", ",", "b">>)}

InitFile ==
    /\ \/ df \in SheetPool /\ files = NoFiles
       \/ df = <<>> /\ files \in FilePool
       \/ df \in WorkbookFrames /\ files = (PathXlsx :> WorkbookFile(to_excel(df)))
    /\ stack = NoStack
    /\ catalog = EngineCatalog
    /\ pc = "idle"
    /\ call = NoCall
    /\ ret = NoRet
    /\ ret2 = NoRet

\* a call of find_header_row on the sheet the caller holds
FindHeaderRow ==
    /\ pc = "idle"
    /\ files = NoFiles
    /\ \E max_rows \in MaxRowsChoices :
          /\ call' = [NoCall EXCEPT !.op = "find_header_row", !.max_rows = max_rows]
          /\ ret' = [NoRet EXCEPT !.index = find_header_row(df, max_rows)]
    /\ pc' = "located"
    /\ UNCHANGED <<df, catalog, files, stack, ret2>>

\* a call of detect_delimiter on a path that holds a text or no file
DetectDelimiter ==
    /\ pc = "idle"
    /\ files # NoFiles
    /\ \E path \in PathPool :
          /\ path \in DOMAIN files => files[path].kind = "text"
          /\ call' = [NoCall EXCEPT !.op = "detect_delimiter", !.path = path]
          /\ ret' = [NoRet EXCEPT !.delimiter = <<detect_delimiter(files, path)>>]
    /\ pc' = "delimited"
    /\ UNCHANGED <<df, catalog, files, stack, ret2>>

\* the outcomes of the sniffer for a path: of its text, if it is read at all
SniffChoices(fs, path) ==
    IF path \in DOMAIN fs /\ fs[path].kind = "text" /\ ~IsBlankText(fs[path].content)
       /\ \E suffix \in TextSuffixes : EndsWith(path, suffix)
    THEN SniffOutcomes(fs[path].content)
    ELSE {[ok |-> FALSE, delimiter |-> ","]}

\* what the caller of read_file sees: the sheets, or the error raised
ReadRet(r) ==
    [NoRet EXCEPT !.raised = r.raised, !.error = <<r.cause, r.wrapped>>, !.sheets = r.sheets]

\* a call of read_file
ReadFile ==
    /\ pc = "idle"
    /\ files # NoFiles
    /\ \E path \in PathPool :
       \E sniffed \in SniffChoices(files, path) :
          /\ call' = [NoCall EXCEPT !.op = "read_file", !.path = path,
                                    !.sniffed = sniffed.ok]
          /\ ret' = ReadRet(read_file(files, path, sniffed))
    /\ pc' = "read"
    /\ UNCHANGED <<df, catalog, files, stack, ret2>>

NextFile == FindHeaderRow \/ DetectDelimiter \/ ReadFile

SpecFile == InitFile /\ [][NextFile]_vars

(***************************************************************************)
(* Properties of the file handler.                                         *)
(***************************************************************************)
\* the row indices the scan covers, and those whose row is non-empty after
\* dropping the null cells and holds strings only
ScannedRows == {i \in 0..(RowCount(df) - 1) : i < call.max_rows}

HeaderCandidates ==
    {i \in ScannedRows :
        /\ \E c \in DOMAIN df : df[c][i + 1].k # "null"
        /\ \A c \in DOMAIN df : df[c][i + 1].k \in {"null", "str"}}

\* C16: find_header_row returns the smallest index below min(row_count,
\* max_scan_rows) whose row, null cells dropped, is non-empty and all
\* strings; without such a row it returns 0 for a non-empty sheet with a
\* column and -1 otherwise; the result is -1 or a row index of the sheet.
C16_FirstStringRow ==
    pc = "located" =>
        /\ IF HeaderCandidates # {}
           THEN /\ ret.index \in HeaderCandidates
                /\ \A i \in HeaderCandidates : ret.index <= i
           ELSE ret.index = IF RowCount(df) > 0 /\ DOMAIN df # {} THEN 0 ELSE -1
        /\ ret.index = -1 \/ ret.index \in 0..(RowCount(df) - 1)

\* the header was found below a row that holds a number, in a row that also
\* holds a null cell
C16_Witness ==
    /\ pc = "located"
    /\ ret.index = 1
    /\ \E c \in DOMAIN df : df[c][1].k = "int"
    /\ \E c \in DOMAIN df : df[c][2].k = "null"

\* no row qualifies: the default 0 for a sheet with rows, -1 for the empty one
C16_DefaultWitness ==
    /\ pc = "located"
    /\ HeaderCandidates = {}
    /\ RowCount(df) > 0
    /\ ret.index = 0

\* detect_delimiter ran its brute-force pass: the path holds a text that is
\* not blank
BruteForceCall ==
    /\ pc = "delimited"
    /\ call.path \in DOMAIN files
    /\ ~IsBlankText(files[call.path].content)

CallSample(k) == SampleParse(files[call.path].content, Delimiters[k])

\* the candidates whose sample parse has column_count > 1
Qualifying == {k \in 1..Len(Delimiters) : CallSample(k).ok /\ CallSample(k).column_count > 1}

\* candidate j does not beat candidate k: fewer columns, or as many and a
\* consistency that is not greater
NotBetter(j, k) ==
    \/ CallSample(j).column_count < CallSample(k).column_count
    \/ /\ CallSample(j).column_count = CallSample(k).column_count
       /\ CallSample(j).full * CallSample(k).rows <= CallSample(k).full * CallSample(j).rows

\* C17: the brute-force pass returns, among the candidates whose sample
\* parse has column_count > 1, the one with the greatest column_count, ties
\* broken by the greater consistency, and ',' when no candidate qualifies.
C17_MostColumnsThenConsistency ==
    BruteForceCall =>
        IF Qualifying = {} THEN ret.delimiter = <<",">>
        ELSE \E k \in Qualifying :
                /\ ret.delimiter = <<Delimiters[k]>>
                /\ \A j \in Qualifying : NotBetter(j, k)

\* the candidate characters that occur in the text of the call
CandidatesPresent ==
    {k \in 1..Len(Delimiters) :
        \E j \in 1..Len(files[call.path].content) : files[call.path].content[j] = Delimiters[k]}

\* the rows the sample of candidate k holds, split at the candidate
SampledRows(k) ==
    LET all == CsvRows(files[call.path].content, Delimiters[k])
    IN  SubSeq(all, 1, Min(Len(all), SampleRows))

\* candidate k splits every sampled row into one number (> 1) of fields
SplitsEvenly(k) ==
    /\ SampledRows(k) # <<>>
    /\ Len(SampledRows(k)[1]) > 1
    /\ \A i \in 1..Len(SampledRows(k)) : Len(SampledRows(k)[i]) = Len(SampledRows(k)[1])

\* C18: when exactly one candidate delimiter occurs in the file and it
\* splits every sampled row into the same number (> 1) of fields,
\* detect_delimiter returns that delimiter.
C18_SingleDelimiterFound ==
    BruteForceCall =>
        \A k \in CandidatesPresent :
            (CandidatesPresent = {k} /\ SplitsEvenly(k)) => ret.delimiter = <<Delimiters[k]>>

\* C18 when a sampled row has no empty field (holds of the code), the
\* test's file included: it gives ';'
C18_SingleDelimiterFoundUnlessEmptyFields ==
    /\ BruteForceCall =>
          \A k \in CandidatesPresent :
              (/\ CandidatesPresent = {k}
               /\ SplitsEvenly(k)
               /\ \E i \in 1..Len(SampledRows(k)) :
                     NonNullFields(SampledRows(k)[i]) = Len(SampledRows(k)[i]))
              => ret.delimiter = <<Delimiters[k]>>
    /\ (BruteForceCall /\ files[call.path].content = TestDelimitedText) =>
          ret.delimiter = <<";">>

C18_TestFile ==
    /\ BruteForceCall
    /\ files[call.path].content = TestDelimitedText
    /\ ret.delimiter = <<";">>

ReadCall == pc = "read"

UnsupportedPath == \A suffix \in ExcelSuffixes \cup TextSuffixes : ~EndsWith(call.path, suffix)

BlankDelimitedFile ==
    /\ \E suffix \in TextSuffixes : EndsWith(call.path, suffix)
    /\ call.path \in DOMAIN files
    /\ IsBlankText(files[call.path].content)

\* the error that left read_file is the one of the raise site, not wrapped
FailsWith(cause) == ret.raised /\ ret.error = <<cause, FALSE>>

\* C19: read(path) fails with the unsupported-file-type error for an
\* extension outside {xlsx, xls, csv, txt, dat}, with the empty-file error
\* for a delimited file that is blank, and wraps only lower-level read
\* failures as the file-read error; the first two are never re-wrapped.
C19_ThreeFailureKinds ==
    ReadCall =>
        /\ UnsupportedPath => FailsWith("Unsupported file type.")
        /\ BlankDelimitedFile => FailsWith("File is empty.")
        /\ (ret.raised /\ ret.error[2]) =>
              ret.error[1] \notin {"Unsupported file type.", "File is empty."}

\* what the code does: every failure leaves read_file as
\* ValueError("Error reading file: <cause>"), the unsupported type and the
\* empty file included
C19_EveryFailureWrapped ==
    ReadCall =>
        /\ ret.raised => ret.error[2]
        /\ UnsupportedPath => ret.raised /\ ret.error[1] = "Unsupported file type."
        /\ BlankDelimitedFile => ret.raised /\ ret.error[1] = "File is empty."

\* read_file was called on the workbook that to_excel wrote from the frame
\* the caller holds: one header row and len(df) data rows
WorkbookReadBack ==
    /\ ReadCall
    /\ call.path = PathXlsx
    /\ DOMAIN df = {Col1, Col2}
    /\ files = (PathXlsx :> WorkbookFile(to_excel(df)))

\* C20: reading a workbook written with one header row and n data rows
\* returns a mapping that contains 'Sheet1', and that sheet has exactly n
\* rows (the test: n = 3).
C20_SheetHasDataRows ==
    WorkbookReadBack =>
        /\ ~ret.raised
        /\ SheetName \in DOMAIN ret.sheets
        /\ RowCount(ret.sheets[SheetName]) = RowCount(df)

\* what the code does: the sheet is read with header=None and keeps the
\* header row as its first row, n + 1 rows in all
C20_SheetKeepsHeaderRow ==
    WorkbookReadBack =>
        /\ ~ret.raised
        /\ SheetName \in DOMAIN ret.sheets
        /\ RowCount(ret.sheets[SheetName]) = RowCount(df) + 1
        /\ \A c \in DOMAIN ret.sheets[SheetName] : ret.sheets[SheetName][c][1].k = "str"

\* the test's workbook was read back: four rows
C20_TestWorkbook ==
    /\ WorkbookReadBack
    /\ df = TestWorkbookFrame
    /\ RowCount(ret.sheets[SheetName]) = 4

(***************************************************************************)
(* Properties of composite rules.                                          *)
(***************************************************************************)
\* validate of models/validation.py has returned for a composite rule
CompositeReturned ==
    /\ pc \in {"validated", "revalidated"}
    /\ call.op = "validate"
    /\ call.rule \in CustomRuleNames
    /\ ~ret.raised

CallRule == fetch_rule(catalog, call.rule)

\* the cell of row i passes the k-th base rule: the single-row sub-validation
\* of line 224 reports no error
PassesBase(i, k) ==
    LET sub == check_special_characters_in_column(catalog, OneRow(df, i), call.col,
                   CallRule.base_rules[k], call.formats, call.check_null_cells)
    IN  ~sub.raised /\ sub.count = 0

\* the pass/fail the declared logic gives the cell of row i
DeclaredLogicPasses(i) ==
    IF CallRule.logic = "AND"
    THEN \A k \in 1..Len(CallRule.base_rules) : PassesBase(i, k)
    ELSE \E k \in 1..Len(CallRule.base_rules) : PassesBase(i, k)

\* the cell of row i passes: the result holds no location of its row
CellPasses(i) == LocsOfRow(ret.locs, i) = {}

\* C21: for a composite rule {logic, base_rules} the combined pass/fail of a
\* cell follows the declared logic: with AND the cell passes iff it passes
\* every base rule, with OR iff it passes at least one base rule.
C21_LogicFollowed ==
    CompositeReturned =>
        \A i \in 1..Len(CalledColumn) : CellPasses(i) <=> DeclaredLogicPasses(i)

\* what the code does for OR: the flag starts at True and stays there, and
\* every error of every base rule is recorded, so the cell passes iff it
\* passes every base rule
C21_OrPassesOnlyIfEveryBasePasses ==
    (CompositeReturned /\ CallRule.logic = "OR") =>
        \A i \in 1..Len(CalledColumn) :
            CellPasses(i) <=> \A k \in 1..Len(CallRule.base_rules) : PassesBase(i, k)

\* what the code does for AND: the flag starts at False and stays there, so
\* a cell passes only when it passes every base rule and an earlier row has
\* left a location in the list
C21_AndPassesOnlyAfterEarlierError ==
    (CompositeReturned /\ CallRule.logic = "AND") =>
        \A i \in 1..Len(CalledColumn) :
            CellPasses(i) <=>
                /\ \A k \in 1..Len(CallRule.base_rules) : PassesBase(i, k)
                /\ \E j \in 1..Len(ret.locs) : ret.locs[j].row < i

\* lines 222-230: the flag valid of the cell of row i after the loop over the
\* base rules
CombinedValid(i) ==
    BaseRulesLoop([acc |-> NoErrors, valid |-> InitialValid(CallRule.logic)], 1, catalog, df,
                  call.col, i, Coerce(CalledColumn[i]), call.rule, CallRule,
                  [formats |-> call.formats, check_null_cells |-> call.check_null_cells]).valid

\* C22: for a composite rule, every cell whose combined logic evaluates to
\* false has at least one location carrying its own row number in the result
\* (a synthetic "Failed custom rule <name>" entry when no base rule produced
\* one), whether or not earlier rows of the column already recorded errors.
C22_FailingCellHasLocation ==
    CompositeReturned =>
        \A i \in 1..Len(CalledColumn) : ~CombinedValid(i) => ~CellPasses(i)

\* C22 for the cells before which the list of locations is still empty
\* (holds of the code): line 238 tests the list of the whole column
C22_FailingCellHasLocationWhileListEmpty ==
    CompositeReturned =>
        \A i \in 1..Len(CalledColumn) :
            (~CombinedValid(i) /\ \A j \in 1..Len(ret.locs) : ret.locs[j].row >= i)
            => ~CellPasses(i)

\* the synthetic entry is emitted: a cell that passes every base rule of an
\* AND rule, in the first row
C22_SyntheticWitness ==
    /\ CompositeReturned
    /\ Len(CalledColumn) >= 1
    /\ ret.locs # <<>>
    /\ ret.locs[1] = Loc(1, Coerce(CalledColumn[1]), call.rule,
                         <<"Failed custom rule ", call.rule>>)

(***************************************************************************)
(* Properties of the cell checks.                                          *)
(***************************************************************************)
\* the locations of row i, in the order of the result
RowLocs(i) == SelectSeq(ret.locs, LAMBDA l : l.row = i)

\* every null cell of the called column has exactly the one location
\* (i, "NULL", rule_name, "Value is null")
NullCellsReportedOnce ==
    \A i \in 1..Len(CalledColumn) :
        IsNa(CalledColumn[i]) =>
            RowLocs(i) = <<Loc(i, NullStr, call.rule, <<"Value is null", <<>>>>)>>

\* C23: with check_null_cells set, every null cell at row i yields exactly
\* one location (i, "NULL", rule_name, "Value is null") and the cell is not
\* processed further for that rule, for every rule kind, composite rules
\* included.
C23_NullCellOneLocation == (Returned /\ call.check_null_cells) => NullCellsReportedOnce

\* C23 for the rules that take the standard loop, in either engine (holds of
\* the code)
C23_NullCellOneLocationStandardLoop ==
    (Returned /\ call.check_null_cells /\ (call.op = "service" \/ call.rule \notin CustomRuleNames))
    => NullCellsReportedOnce

\* a null cell under a composite rule: the base rules have reported it, with
\* the coerced value
C23_CompositeWitness ==
    /\ CompositeReturned
    /\ call.check_null_cells
    /\ CalledColumn = <<Null>>
    /\ call.rule = RIntAndAlnum
    /\ ret.locs = <<Loc(1, <<>>, RIntAndAlnum, <<"Value is null", <<>>>>),
                    Loc(1, <<>>, RIntAndAlnum, <<"Value is null", <<>>>>)>>

(***************************************************************************)
(* validate, call by call: the recursion of line 224 on an explicit stack  *)
(* of activations.  An activation holds the rule, the column of its frame  *)
(* (the whole column, or the single row of a sub-validation), the row i    *)
(* and the base rule k it has reached, its own count and locations, and    *)
(* the flag valid of the current cell.                                     *)
(***************************************************************************)
\* the deepest nesting of calls the interpreter allows (sys.getrecursionlimit)
RecursionLimit == 4

RSelf == <<"S", "e", "l", "f", "C", "h", "e", "c", "k">>

RPing == <<"P", "i", "n", "g">>

RPong == <<"P", "o", "n", "g">>

\* a catalog with a rule that names itself and two rules that name each other
CyclicCatalog ==
    EngineCatalog @@
    (RSelf :> Descriptor(TRUE, TRUE, "AND", <<RInt, RSelf>>, <<>>)) @@
    (RPing :> Descriptor(TRUE, TRUE, "OR", <<RPong>>, <<>>)) @@
    (RPong :> Descriptor(TRUE, TRUE, "AND", <<RPing, RInt>>, <<>>))

\* line 199: the rule takes the custom loop
IsCustomRule(cat, rule) ==
    /\ fetch_rule(cat, rule).found
    /\ fetch_rule(cat, rule).is_custom
    /\ ~StartsWith(rule, DatePrefix)

\* line 222 onwards: a fresh activation
Activation(cat, rule, column) ==
    [rule |-> rule, column |-> column, i |-> 1, k |-> 1, acc |-> NoErrors,
     valid |-> InitialValid(fetch_rule(cat, rule).logic)]

\* a slip of AfterReturn: the result of the sub-validation is dropped and the
\* loop over base_rules does not advance
AfterReturnSameBase(cat, caller, sub) ==
    IF sub.raised THEN [caller EXCEPT !.acc = Raise(@)] ELSE caller

\* lines 224-236: the caller after the sub-validation has returned sub, or
\* has raised
AfterReturn(cat, caller, sub) ==
    IF sub.raised THEN [caller EXCEPT !.acc = Raise(@)]
    ELSE [caller EXCEPT
             !.acc = IF sub.count > 0
                     THEN EmitBaseErrors(@, 1, sub.locs, caller.i,
                                         Coerce(caller.column[caller.i]), caller.rule)
                     ELSE @,
             !.valid = CombineValid(@, fetch_rule(cat, caller.rule).logic, sub.count),
             !.k = @ + 1]

\* lines 215-219 and 238-241: the end of the iteration for one cell
AfterCell(cat, top) ==
    [top EXCEPT
        !.acc = IF Coerce(top.column[top.i]) = <<>> /\ top.rule = RRequired
                THEN Emit(@, Loc(top.i, EmptyStr, top.rule, <<"Value is empty", <<>>>>))
                ELSE IF ~top.valid /\ @.locs = <<>>
                THEN Emit(@, Loc(top.i, Coerce(top.column[top.i]), top.rule,
                                 <<"Failed custom rule ", top.rule>>))
                ELSE @,
        !.i = @ + 1,
        !.k = 1,
        !.valid = InitialValid(fetch_rule(cat, top.rule).logic)]

Top == stack[Len(stack)]

TopRule == fetch_rule(catalog, Top.rule)

WithTop(frame) == [stack EXCEPT ![Len(stack)] = frame]

\* the activation on top ends with result: the outermost one answers the
\* caller of validate, an inner one its calling activation
Deliver(result) ==
    IF Len(stack) = 1
    THEN /\ stack' = NoStack
         /\ pc' = "done"
         /\ ret' = ValidateRet(result)
    ELSE /\ stack' = Append(SubSeq(stack, 1, Len(stack) - 2),
                            AfterReturn(catalog, stack[Len(stack) - 1], result))
         /\ pc' = pc
         /\ ret' = ret

StackCells == {Null, StrCell(<<"0">>), StrCell(<<"a", "b", "c">>), IntCell(25)}

StackRules == CustomRuleNames \cup {RInt, RRequired, RDateMissing, RFormula, RSelf, RPing, RPong}

InitStack ==
    /\ df \in {(ColAge :> column) : column \in ColumnsOver(StackCells, MaxRows)}
    /\ catalog \in {EngineCatalog, CyclicCatalog}
    /\ files = NoFiles
    /\ stack = NoStack
    /\ pc = "idle"
    /\ call = NoCall
    /\ ret = NoRet
    /\ ret2 = NoRet

\* the caller calls validate on the column
CallValidate ==
    /\ pc = "idle"
    /\ \E rule \in StackRules, chk \in BOOLEAN :
          /\ call' = [NoCall EXCEPT !.op = "validate", !.col = ColAge, !.rule = rule,
                                    !.formats = DefaultDateFormats, !.check_null_cells = chk]
          /\ stack' = <<Activation(catalog, rule, df[ColAge])>>
    /\ pc' = "running"
    /\ UNCHANGED <<df, catalog, files, ret, ret2>>

\* lines 244-323: a standard rule runs its loop and returns
ReturnStandard ==
    /\ pc = "running"
    /\ ~Top.acc.raised
    /\ ~IsCustomRule(catalog, Top.rule)
    /\ Deliver(StandardLoop(NoErrors, 1, Top.column, Top.rule, TopRule,
                            AcceptedFormats(Top.rule, TopRule, call.formats),
                            call.check_null_cells))
    /\ UNCHANGED <<df, catalog, files, call, ret2>>

\* line 200: json.loads of parameters that are not JSON
FailParameters ==
    /\ pc = "running"
    /\ ~Top.acc.raised
    /\ IsCustomRule(catalog, Top.rule)
    /\ ~TopRule.params_json
    /\ stack' = WithTop([Top EXCEPT !.acc = Raise(@)])
    /\ UNCHANGED <<df, catalog, files, pc, call, ret, ret2>>

\* the activation on top is in the custom loop, at a cell
AtCell ==
    /\ pc = "running"
    /\ ~Top.acc.raised
    /\ IsCustomRule(catalog, Top.rule)
    /\ TopRule.params_json
    /\ Top.i <= Len(Top.column)

\* the loop over base_rules has a rule left for the cell
HasBaseRule ==
    /\ Top.k <= Len(TopRule.base_rules)
    /\ ~(Coerce(Top.column[Top.i]) = <<>> /\ Top.rule = RRequired)

\* line 224: the recursive call on the frame of the single row; beyond the
\* limit of the interpreter the call is a RecursionError in the caller
CallBase ==
    /\ AtCell
    /\ HasBaseRule
    /\ stack' = IF Len(stack) >= RecursionLimit
                THEN WithTop([Top EXCEPT !.acc = Raise(@)])
                ELSE Append(stack, Activation(catalog, TopRule.base_rules[Top.k],
                                              <<Top.column[Top.i]>>))
    /\ UNCHANGED <<df, catalog, files, pc, call, ret, ret2>>

\* lines 238-241: the base rules of the cell are done
EndCell ==
    /\ AtCell
    /\ ~HasBaseRule
    /\ stack' = WithTop(AfterCell(catalog, Top))
    /\ UNCHANGED <<df, catalog, files, pc, call, ret, ret2>>

\* line 323: the custom loop is over
ReturnCustom ==
    /\ pc = "running"
    /\ ~Top.acc.raised
    /\ IsCustomRule(catalog, Top.rule)
    /\ TopRule.params_json
    /\ Top.i > Len(Top.column)
    /\ Deliver(Top.acc)
    /\ UNCHANGED <<df, catalog, files, call, ret2>>

\* lines 324-326: except Exception: raise
Reraise ==
    /\ pc = "running"
    /\ Top.acc.raised
    /\ Deliver(Top.acc)
    /\ UNCHANGED <<df, catalog, files, call, ret2>>

RunStep == ReturnStandard \/ FailParameters \/ CallBase \/ EndCell \/ ReturnCustom \/ Reraise

NextStack == CallValidate \/ RunStep

\* a call in progress keeps running: the interpreter does not stop by itself
SpecStack == InitStack /\ [][NextStack]_vars /\ WF_vars(RunStep)

(***************************************************************************)
(* Properties of the recursion.                                            *)
(***************************************************************************)
\* the rules a rule hands its cells to (lines 199-202 and 223-224)
BaseRulesOf(cat, rule) ==
    IF IsCustomRule(cat, rule) /\ fetch_rule(cat, rule).params_json
    THEN {fetch_rule(cat, rule).base_rules[k] : k \in 1..Len(fetch_rule(cat, rule).base_rules)}
    ELSE {}

RECURSIVE ReachableWithin(_, _, _)
ReachableWithin(cat, rules, n) ==
    IF n = 0 THEN rules
    ELSE ReachableWithin(cat, rules \cup UNION {BaseRulesOf(cat, r) : r \in rules}, n - 1)

\* the rules on the base_rules chains that start at rule
ChainOf(cat, rule) == ReachableWithin(cat, BaseRulesOf(cat, rule), Cardinality(DOMAIN cat))

\* a base_rules chain that starts at rule leads back to a rule on it
LeadsToCycle(cat, rule) == \E r \in {rule} \cup ChainOf(cat, rule) : r \in ChainOf(cat, r)

Acyclic(cat) == \A r \in DOMAIN cat : ~LeadsToCycle(cat, r)

\* a call of validate is in progress or over
Called == pc \in {"running", "done"}

CyclicCall == Called /\ LeadsToCycle(catalog, call.rule) /\ df[call.col] # <<>>

\* an exception is on its way out through the activations
Unwinding == \E j \in 1..Len(stack) : stack[j].acc.raised

\* the activations compute what the recursive definition of validate computes
StackAgreesWithRecursion ==
    (pc = "done" /\ ~LeadsToCycle(catalog, call.rule)) =>
        ret = ValidateRet(check_special_characters_in_column(
                              catalog, df, call.col, call.rule, call.formats,
                              call.check_null_cells))

\* C24: validate terminates on every finite frame when the base_rules
\* references are acyclic; there is no depth guard, so when a base_rules
\* chain of the rule leads back to itself, validate on a non-empty column
\* recurses as deep as the interpreter lets it and never returns a result.
C24_TerminatesUnlessCyclic ==
    /\ []((pc = "running" /\ ~LeadsToCycle(catalog, call.rule)) => <>(pc = "done"))
    /\ []((pc = "running" /\ CyclicCall /\ ~Unwinding) => <>(Len(stack) = RecursionLimit))
    /\ [](CyclicCall => ~(pc = "done" /\ ~ret.raised))

\* two rules that name each other have filled the stack
C24_Witness ==
    /\ pc = "running"
    /\ catalog = CyclicCatalog
    /\ call.rule = RPing
    /\ Len(stack) = RecursionLimit
    /\ stack[Len(stack)].rule \in {RPing, RPong}

\* a nested acyclic rule has returned a result
C24_AcyclicWitness ==
    /\ pc = "done"
    /\ Acyclic(catalog)
    /\ call.rule = RNested
    /\ ~ret.raised
    /\ ret.count > 0

\* a call of validate with rule Int has returned, in either engine
IntReturned == Returned /\ call.rule = RInt

\* the cell of row i is reported once, as not an integer
NotAnIntegerAt(i) ==
    RowLocs(i) = <<Loc(i, Coerce(CalledColumn[i]), RInt, <<"Must be an integer", <<>>>>)>>

\* C25: rule Int accepts a trimmed, non-null cell value iff it is an optional
\* single leading '-' followed by one or more digits; every other value, one
\* with '-' in a non-leading position included, yields "Must be an integer".
C25_IntIffLeadingMinusDigits ==
    IntReturned =>
        \A i \in 1..Len(CalledColumn) :
            ~IsNa(CalledColumn[i]) =>
                IF IntMatch(Coerce(CalledColumn[i])) THEN RowLocs(i) = <<>> ELSE NotAnIntegerAt(i)

\* the number of '-' in s
DashCount(s) == Cardinality({j \in 1..Len(s) : s[j] = "-"})

\* what the code accepts: digits with at most one '-' at any position, and
\* at least one digit
C25_IntIffDigitsAndOneDashAnywhere ==
    IntReturned =>
        \A i \in 1..Len(CalledColumn) :
            ~IsNa(CalledColumn[i]) =>
                IF /\ AllIn(Coerce(CalledColumn[i]), Digit \cup {"-"})
                   /\ DashCount(Coerce(CalledColumn[i])) <= 1
                   /\ Len(Coerce(CalledColumn[i])) > DashCount(Coerce(CalledColumn[i]))
                THEN RowLocs(i) = <<>>
                ELSE NotAnIntegerAt(i)

\* the value 1-2 has passed rule Int
C25_DashInsideWitness ==
    /\ IntReturned
    /\ CalledColumn = <<StrCell(<<"1", "-", "2">>)>>
    /\ ret.locs = <<>>

\* validate of models/validation.py has been called with a Date(<fmt>) rule
DateCall ==
    /\ pc \in {"validated", "revalidated"}
    /\ call.op = "validate"
    /\ StartsWith(call.rule, DatePrefix)

\* the <fmt> of the rule name Date(<fmt>)
FormatToken(rule) == Slice(rule, Len(DatePrefix) + 1, Len(rule) - 1)

\* the locations of every non-null cell under a Date rule checked against
\* formats, a failure citing cited
DateCellsChecked(formats, cited) ==
    \A i \in 1..Len(CalledColumn) :
        ~IsNa(CalledColumn[i]) =>
            RowLocs(i) =
                IF Coerce(CalledColumn[i]) = <<>>
                THEN <<Loc(i, EmptyStr, call.rule, <<"Value is empty", <<>>>>)>>
                ELSE IF \E k \in 1..Len(formats) : Strptime(Coerce(CalledColumn[i]), formats[k])
                THEN <<>>
                ELSE <<Loc(i, Coerce(CalledColumn[i]), call.rule,
                           <<"Invalid date format (expected ", cited>>)>>

C26_CallerListWitness ==
    /\ DateCall
    /\ call.rule = RDateNoFormat
    /\ call.formats = <<FmtMySlash>>
    /\ CalledColumn = <<StrCell(<<"0", "2", "/", "2", "3">>)>>
    /\ ~ret.raised
    /\ ret.locs = <<>>

(***************************************************************************)
(* Properties of the two engines and of the default rules.                 *)
(***************************************************************************)
BuiltInRuleNames ==
    {RRequired, RInt, RFloat, RText, REmail, RBoolean, RAlphanumeric,
     RDateDMY, RDateMY, RDateNoFormat, RDateUnknown, RDateMissing}

\* the outcome of the engine that was not called, on the same arguments
OtherEngine ==
    ValidateRet(IF call.op = "validate"
                THEN check_column_validation(catalog, df, call.col, call.rule,
                                             call.formats, call.check_null_cells)
                ELSE check_special_characters_in_column(catalog, df, call.col, call.rule,
                                                        call.formats, call.check_null_cells))

RowsFlagged(r) == {r.locs[j].row : j \in 1..Len(r.locs)}

EnginesAgree ==
    /\ OtherEngine.raised = ret.raised
    /\ OtherEngine.count = ret.count
    /\ RowsFlagged(OtherEngine) = RowsFlagged(ret)

\* C27: the two copies of the engine are the same engine: for every frame,
\* column, check_null_cells flag and built-in rule name (Required, Int,
\* Float, Text, Email, Boolean, Alphanumeric, Date(<fmt>)),
\* check_column_validation and check_special_characters_in_column return the
\* same error_count and the same rows flagged.
C27_EnginesAgree ==
    (pc = "validated" /\ call.rule \in BuiltInRuleNames) => EnginesAgree

\* C27 without rule Text and without the Date rule that has no row (holds of
\* the code)
C27_EnginesAgreeExceptText ==
    (pc = "validated" /\ call.rule \in BuiltInRuleNames \ {RText, RDateMissing}) => EnginesAgree

\* the model's assigner has returned the rules of the columns named
ModelAssigned == pc = "assigned" /\ call.op = "assign_model" /\ ~ret.raised

\* the rules the call has assigned to some column
AssignedRules ==
    UNION {{ret.assignments[col][k] : k \in 1..Len(ret.assignments[col])} :
              col \in DOMAIN ret.assignments}

\* non-null cell values to try a rule on
RejectPool == (EnginePool \cup AssignPool) \ {Null}

\* validate with the rule on the column of the single cell
ValidateCell(cell, rule) ==
    check_special_characters_in_column(catalog, ColAge :> <<cell>>, ColAge, rule,
                                       DefaultDateFormats, TRUE)

\* some non-null cell value yields a location under the rule
CanReject(rule) == \E cell \in RejectPool : ValidateCell(cell, rule).count > 0

\* C28: every rule name the Default Rule Assigner can emit (Required, Text,
\* Email, Date, Boolean, Int, Float, Alphanumeric) is handled by a dispatch
\* branch of validate that can reject a cell: for each such rule some non-null
\* cell value yields a location.
C28_EveryAssignedRuleCanReject ==
    ModelAssigned => \A rule \in AssignedRules : CanReject(rule)

\* C28 for the rules other than Date (holds of the code)
C28_EveryAssignedRuleButDateCanReject ==
    ModelAssigned => \A rule \in AssignedRules \ {RDate} : CanReject(rule)

\* rule Date has been assigned to a column of dates; no value of the pool is
\* rejected under it
C28_DateWitness ==
    /\ ModelAssigned
    /\ RDate \in AssignedRules
    /\ \A cell \in RejectPool : ValidateCell(cell, RDate) = NoErrors

\* no cell of the column is null or empty
NoNullOrEmpty(column) ==
    \A i \in 1..Len(column) : ~IsNa(column[i]) /\ Coerce(column[i]) # <<>>

\* validate with the rule on the column finds no error
ValidatesClean(col, rule) ==
    check_special_characters_in_column(catalog, df, col, rule, DefaultDateFormats, TRUE)
        = NoErrors

\* the column holds a character that rule Text rejects
HoldsSpecialCharacters(column) ==
    \E i \in 1..Len(column) :
        has_special_characters_except_quotes_and_parenthesis(Coerce(column[i]))

\* C29: detector and validator agree: for every column without null or empty
\* cells, each rule that assign_default_rules_to_columns derives for it
\* (Required plus the detected type) validates that same column with zero
\* errors.
C29_AssignedRulesValidateClean ==
    ModelAssigned =>
        \A col \in DOMAIN ret.assignments :
            NoNullOrEmpty(df[col]) =>
                \A k \in 1..Len(ret.assignments[col]) :
                    ValidatesClean(col, ret.assignments[col][k])

\* C29 with the fallback type: a column that matches no pattern is typed
\* Text, and rule Text validates it clean iff it holds letters, blanks,
\* double quotes and parentheses only
C29_AssignedRulesValidateCleanUnlessFallback ==
    ModelAssigned =>
        \A col \in DOMAIN ret.assignments :
            NoNullOrEmpty(df[col]) =>
                \A k \in 1..Len(ret.assignments[col]) :
                    IF ret.assignments[col][k] = RText /\ detect_column_type(df[col]) = RText
                    THEN ValidatesClean(col, RText) <=> ~HoldsSpecialCharacters(df[col])
                    ELSE ValidatesClean(col, ret.assignments[col][k])

\* a column of two integers has been typed Int and validates clean under
\* Required and Int
C29_Witness ==
    /\ ModelAssigned
    /\ ColAge \in DOMAIN ret.assignments
    /\ Len(df[ColAge]) = 2
    /\ NoNullOrEmpty(df[ColAge])
    /\ ret.assignments[ColAge] = <<RRequired, RInt>>
    /\ ValidatesClean(ColAge, RInt)

\* a column of mixed values has been typed Text and fails rule Text
C29_FallbackWitness ==
    /\ ModelAssigned
    /\ ColAge \in DOMAIN ret.assignments
    /\ df[ColAge] = <<StrCell(<<"a", "b", "c">>), StrCell(<<"1", ".", "5">>)>>
    /\ ret.assignments[ColAge] = <<RRequired, RText>>
    /\ ~ValidatesClean(ColAge, RText)

(***************************************************************************)
(* Properties of the dispatch of evaluate_column_rule.                     *)
(***************************************************************************)
\* the reasons that only the comparison branch (lines 409-466) writes
ComparisonReasons ==
    {"Failed comparison: ", "Comparison formula must be 'column_name <operator> operand'",
     "Second column not found in data", "Invalid operand for comparison: ",
     "Value is null in column ", "Value is null"}

\* the call has the comparison shape '<col>' = <operand> on a column of the
\* frame, the operand a numeric constant or a quoted column of the frame
IsEqualsShapeCall ==
    /\ pc = "evaluated"
    /\ CallColumn \in LowerColumns(df)
    /\ Len(CallParts) = 3
    /\ CallParts[1] = Quoted(CallColumn)
    /\ CallParts[2] = <<"=">>
    /\ IF OperandIsColumn THEN CallSecondColumn \in LowerColumns(df)
                          ELSE FloatOf(CallOperand).ok

\* the exact-equality operator rejected a row
ExactEqualityApplied ==
    \E j \in 1..Len(ret.locs) : ret.locs[j].reason = <<"Failed comparison: ", <<"=">>>>

\* C30: evaluate_column_rule dispatches on the substring ' = ': a formula
\* containing ' = ' is evaluated by the arithmetic branch, so a formula of
\* the comparison shape with operator '=' ('a' = 50, 'a' = 'b') is an
\* arithmetic formula, a fully numeric row of it within 1e-10 of the operand
\* is not reported, and no call ever returns a location written by the
\* exact-equality operator of the comparison branch.
C30_EqualsIsArithmetic ==
    /\ (pc = "evaluated" /\ IsArithmeticCall) =>
          \A j \in 1..Len(ret.locs) : ret.locs[j].reason[1] \notin ComparisonReasons
    /\ IsEqualsShapeCall =>
          /\ IsArithmeticFormulaCall
          /\ \A i \in 1..RowCount(df) :
                (/\ RowFullyNumeric(i) /\ RowExpected(i).ok
                 /\ ~ExceedsTolerance(RowActual(i), RowExpected(i).v)) =>
                    RowLocations(i) = {}
    /\ pc = "evaluated" => ~ExactEqualityApplied

\* on frames whose labels are lower-case the tolerance decides every fully
\* numeric row of a formula of the comparison shape with '='
C30_EqualsComparedWithTolerance ==
    (IsEqualsShapeCall /\ CallReferenced \cup {CallColumn} \subseteq DOMAIN df) =>
        ToleranceDecides

\* 'a' = 'b' on a row whose values differ by less than 1e-10 returned valid
\* with no location, which exact equality would have rejected
C30_Witness ==
    /\ IsEqualsShapeCall
    /\ call.rule = <<"'", "a", "'", " ", "=", " ", "'", "b", "'">>
    /\ RowCount(df) = 1 /\ RowFullyNumeric(1) /\ RowExpected(1).ok
    /\ RowActual(1) # RowExpected(1).v
    /\ ~ExceedsTolerance(RowActual(1), RowExpected(1).v)
    /\ ret.valid /\ ret.locs = <<>>

====
